---- MODULE Spec2Model ----
(***************************************************************************)
(* Model of the session state machine and of the XML persistence layer of  *)
(* dnd_ai_game (src/dnd_ai_game/src/utils/data_manager.py and              *)
(* src/dnd_ai_game/src/game/game_logic.py).                                *)
(*                                                                         *)
(* Python values are tagged records [t, v]:                                *)
(*   str  : v is a string           int  : v is an integer                 *)
(*   list : v is a tuple of values  dict : v is a tuple of <<key, value>>  *)
(*          pairs in insertion order (keys are distinct)                   *)
(* An XML element is [tag, attrib, text, children]; attrib is a tuple of   *)
(* <<name, string>> pairs, text is <<>> (None) or <<s>>.                   *)
(***************************************************************************)
EXTENDS Integers, Sequences, FiniteSets, TLC

VARIABLES
    pc,          \* position of the process in interactive_chat_loop
    game_state,  \* the in-memory session (a dict value), or PyNone
    save_path,   \* file name the session is saved to
    disk,        \* save directory: file name -> stored document
    cmd,         \* the command read at the prompt
    roll_result, \* the d20 roll of the turn in flight
    ai_output,   \* the narration of the turn in flight
    loaded,      \* result of the last load_game_state
    last,        \* record of the last operation, for stating properties
    turns,       \* number of turns started so far, over all runs of the program
    history      \* operations applied so far to a synthetic session

vars == <<pc, game_state, save_path, disk, cmd, roll_result, ai_output, loaded, last,
          turns, history>>

-----------------------------------------------------------------------------
(* Python values *)

S(s) == [t |-> "str", v |-> s]
I(n) == [t |-> "int", v |-> n]
L(q) == [t |-> "list", v |-> q]
D(q) == [t |-> "dict", v |-> q]
PyNone == [t |-> "none", v |-> 0]

IsStr(x) == x.t = "str"
IsInt(x) == x.t = "int"
IsList(x) == x.t = "list"
IsDict(x) == x.t = "dict"

\* dict operations (insertion-ordered)
DKeys(d) == {d.v[i][1] : i \in DOMAIN d.v}
DHas(d, k) == k \in DKeys(d)
DIdx(d, k) == CHOOSE i \in DOMAIN d.v : d.v[i][1] = k
DGet(d, k) == d.v[DIdx(d, k)][2]
DGetOr(d, k, dflt) == IF DHas(d, k) THEN DGet(d, k) ELSE dflt
DPut(d, k, val) ==
    IF DHas(d, k)
    THEN D([d.v EXCEPT ![DIdx(d, k)] = <<k, val>>])
    ELSE D(Append(d.v, <<k, val>>))
DDel(d, k) == D(SelectSeq(d.v, LAMBDA p : p[1] # k))

\* Python == on values: dicts compare regardless of insertion order
RECURSIVE PyEq(_, _)
PyEq(a, b) ==
    /\ a.t = b.t
    /\ CASE a.t = "list" ->
              /\ Len(a.v) = Len(b.v)
              /\ \A i \in DOMAIN a.v : PyEq(a.v[i], b.v[i])
         [] a.t = "dict" ->
              /\ DKeys(a) = DKeys(b)
              /\ \A k \in DKeys(a) : PyEq(DGet(a, k), DGet(b, k))
         [] OTHER -> a.v = b.v

\* decimal digits of a natural number
DigitChar(dg) ==
    CASE dg = 0 -> "0" [] dg = 1 -> "1" [] dg = 2 -> "2" [] dg = 3 -> "3"
      [] dg = 4 -> "4" [] dg = 5 -> "5" [] dg = 6 -> "6" [] dg = 7 -> "7"
      [] dg = 8 -> "8" [] dg = 9 -> "9"

RECURSIVE NatChars(_)
NatChars(n) == IF n < 10 THEN <<DigitChar(n)>>
               ELSE Append(NatChars(n \div 10), DigitChar(n % 10))

RECURSIVE Join(_)
Join(chars) == IF chars = <<>> THEN "" ELSE Head(chars) \o Join(Tail(chars))

IntToStr(n) == IF n < 0 THEN "-" \o Join(NatChars(0 - n)) ELSE Join(NatChars(n))

\* repr() and str() of a value
RECURSIVE PyRepr(_)
RECURSIVE ReprItems(_)
RECURSIVE ReprPairs(_)
ReprItems(q) ==
    IF q = <<>> THEN ""
    ELSE PyRepr(Head(q)) \o (IF Len(q) > 1 THEN ", " ELSE "") \o ReprItems(Tail(q))
ReprPairs(q) ==
    IF q = <<>> THEN ""
    ELSE "'" \o Head(q)[1] \o "': " \o PyRepr(Head(q)[2])
         \o (IF Len(q) > 1 THEN ", " ELSE "") \o ReprPairs(Tail(q))
PyRepr(x) ==
    CASE x.t = "str" -> "'" \o x.v \o "'"
      [] x.t = "int" -> IntToStr(x.v)
      [] x.t = "list" -> "[" \o ReprItems(x.v) \o "]"
      [] x.t = "dict" -> "{" \o ReprPairs(x.v) \o "}"
      [] OTHER -> "None"

PyStr(x) == IF x.t = "str" THEN x.v ELSE PyRepr(x)

-----------------------------------------------------------------------------
(* XML documents *)

IndentText == "\n    "
PaddedText == " a "

\* d20 rolls and free-text player actions drawn in the model
RollSet == {1, 20}
Commands == {"look"}

\* f"Player: {cmd} (Rolled {roll_result})\nAI: {ai_output}"
LogContent(c, roll, text) ==
    "Player: " \o c \o " (Rolled " \o IntToStr(roll) \o ")\nAI: " \o text

\* the log content of a turn whose narration is empty, without its last blank
LogContentBare(c, roll) ==
    "Player: " \o c \o " (Rolled " \o IntToStr(roll) \o ")\nAI:"

\* str.strip() on the strings of the model
Strip(s) ==
    CASE s = IndentText -> ""
      [] s = PaddedText -> "a"
      [] s = " " -> ""
      [] \E c \in Commands, r \in RollSet : s = LogContent(c, r, "") ->
            LET cr == CHOOSE x \in Commands \X RollSet : s = LogContent(x[1], x[2], "")
            IN LogContentBare(cr[1], cr[2])
      [] OTHER -> s

Element(tag, attrib, text, children) ==
    [tag |-> tag, attrib |-> attrib, text |-> text, children |-> children]

\* ET.indent followed by a write and a parse of the file: an element with
\* children and blank text gets indentation text; empty text reads back as None
RECURSIVE Stored(_)
Stored(e) ==
    LET kids == [i \in DOMAIN e.children |-> Stored(e.children[i])]
        blank == e.text = <<>> \/ Strip(e.text[1]) = ""
        txt == IF kids # <<>> /\ blank THEN <<IndentText>>
               ELSE IF e.text = <<"">> THEN <<>> ELSE e.text
    IN Element(e.tag, e.attrib, txt, kids)

-----------------------------------------------------------------------------
(* Structured document codec: data_manager.py *)

\* _convert_dict_to_xml_elements(parent, data), as the element built for `tag`
RECURSIVE ConvertToElement(_, _)
RECURSIVE ConvertItems(_, _)
RECURSIVE ConvertPairs(_)
ConvertItems(key, items) ==
    IF items = <<>> THEN <<>>
    ELSE <<ConvertToElement(key, Head(items))>> \o ConvertItems(key, Tail(items))
ConvertPairs(pairs) ==
    IF pairs = <<>> THEN <<>>
    ELSE LET key == Head(pairs)[1]
             val == Head(pairs)[2]
             items == IF IsList(val) THEN val.v ELSE <<val>>
         IN ConvertItems(key, items) \o ConvertPairs(Tail(pairs))
ConvertToElement(tag, data) ==
    IF ~IsDict(data)
    THEN Element(tag, <<>>, <<PyStr(data)>>, <<>>)
    ELSE LET txt == IF DHas(data, "#text") THEN <<PyStr(DGet(data, "#text"))>> ELSE <<>>
             rest == DDel(data, "#text")
         IN Element(tag, <<>>, txt, ConvertPairs(rest.v))

root_attr_keys ==
    << "id", "date", "gamemaster", "campaignName", "inGameDate", "currentLocation",
       "lastRecap", "playerName", "playerRace", "playerClass", "playerBackground",
       "playerGender", "playerAge", "playerHeight", "playerWeight", "playerAlignment",
       "playerDeity", "playerBiography", "playerPersonalityTraits", "playerIdeals",
       "playerBonds", "playerFlaws", "playerSkills", "playerLanguages", "playerEquipment",
       "playerSpells", "playerInventory", "playerGold", "playerXP", "playerLevel",
       "playerHitPoints", "playerArmorClass", "playerInitiative", "playerSpeed",
       "playerProficiencies", "playerSaves", "playerAttacks", "playerFeatures",
       "playerTraits" >>

RootAttrKeySet == {root_attr_keys[i] : i \in DOMAIN root_attr_keys}

\* root_attrs = {k: str(game_state[k]) for k in root_attr_keys if k in game_state}
RootAttrs(gs) ==
    LET present == SelectSeq(root_attr_keys, LAMBDA k : DHas(gs, k))
    IN [i \in DOMAIN present |-> <<present[i], PyStr(DGet(gs, present[i]))>>]

\* save_game_state: the document written to the file
SaveDoc(gs) ==
    LET others == SelectSeq(gs.v, LAMBDA p : p[1] \notin RootAttrKeySet)
    IN Stored(Element("Session", RootAttrs(gs), <<>>, ConvertPairs(others)))

\* node.attrib.copy()
AttribDict(attrib) == D([i \in DOMAIN attrib |-> <<attrib[i][1], S(attrib[i][2])>>])

\* one iteration of the loop over children in _parse_xml_node
MergeChild(data, tag, parsed) ==
    IF DHas(data, tag)
    THEN LET old == DGet(data, tag)
         IN IF IsList(old) THEN DPut(data, tag, L(Append(old.v, parsed)))
            ELSE DPut(data, tag, L(<<old, parsed>>))
    ELSE DPut(data, tag, parsed)

RECURSIVE ParseXmlNode(_)
RECURSIVE ParseChildren(_, _)
ParseChildren(data, children) ==
    IF children = <<>> THEN data
    ELSE ParseChildren(MergeChild(data, Head(children).tag, ParseXmlNode(Head(children))),
                       Tail(children))
ParseXmlNode(node) ==
    LET data == AttribDict(node.attrib)
        text == IF node.text = <<>> THEN "" ELSE Strip(node.text[1])
    IN IF node.children = <<>>
       THEN IF text # "" /\ data.v = <<>> THEN S(text)
            ELSE IF text # "" THEN DPut(data, "#text", S(text))
            ELSE data
       ELSE ParseChildren(data, node.children)

Corrupt == [tag |-> "#corrupt", attrib |-> <<>>, text |-> <<>>, children |-> <<>>]

\* {**root.attrib, **{child.tag: _parse_xml_node(child) for child in root}}
RECURSIVE RootChildren(_, _)
RootChildren(data, children) ==
    IF children = <<>> THEN data
    ELSE RootChildren(DPut(data, Head(children).tag, ParseXmlNode(Head(children))),
                      Tail(children))

\* load_game_state on a stored document; PyNone when parsing fails
LoadGameState(doc) ==
    IF doc = Corrupt THEN PyNone
    ELSE LET gs == RootChildren(AttribDict(doc.attrib), doc.children)
         IN IF DHas(gs, "Memory") THEN gs
            ELSE DPut(gs, "Memory", D(<< <<"Fact", L(<<>>)>> >>))

-----------------------------------------------------------------------------
(* Session store: file names are tuples of characters *)

SessPrefix == <<"S", "E", "S", "S", "-">>
XmlExt == <<".", "x", "m", "l">>
Digits == {"0", "1", "2", "3", "4", "5", "6", "7", "8", "9"}

DigitVal(c) ==
    CASE c = "0" -> 0 [] c = "1" -> 1 [] c = "2" -> 2 [] c = "3" -> 3 [] c = "4" -> 4
      [] c = "5" -> 5 [] c = "6" -> 6 [] c = "7" -> 7 [] c = "8" -> 8 [] c = "9" -> 9

\* f"{n:03d}": at least three digits, padded with zeros on the left
RECURSIVE ZeroPad(_, _)
ZeroPad(chars, width) ==
    IF Len(chars) >= width THEN chars ELSE ZeroPad(<<"0">> \o chars, width)
Format03d(n) == ZeroPad(NatChars(n), 3)

\* glob pattern "SESS-*.xml"
MatchesGlob(f) ==
    /\ Len(f) >= Len(SessPrefix) + Len(XmlExt)
    /\ SubSeq(f, 1, Len(SessPrefix)) = SessPrefix
    /\ SubSeq(f, Len(f) - Len(XmlExt) + 1, Len(f)) = XmlExt

GlobSessions(dir) == {f \in dir : MatchesGlob(f)}

\* f.split('-')[-1]: the part after the last '-'
RECURSIVE AfterLast(_, _)
AfterLast(f, c) ==
    IF \A i \in DOMAIN f : f[i] # c THEN f
    ELSE AfterLast(SubSeq(f, (CHOOSE i \in DOMAIN f : f[i] = c /\ \A j \in 1..(i-1) : f[j] # c) + 1, Len(f)), c)

\* x.split('.')[0]: the part before the first '.'
BeforeFirst(f, c) ==
    IF \A i \in DOMAIN f : f[i] # c THEN f
    ELSE SubSeq(f, 1, (CHOOSE i \in DOMAIN f : f[i] = c /\ \A j \in 1..(i-1) : f[j] # c) - 1)

SuffixOf(f) == BeforeFirst(AfterLast(f, "-"), ".")

\* str.isdigit() and int() on a string of decimal digits
IsDigit(chars) == chars # <<>> /\ \A i \in DOMAIN chars : chars[i] \in Digits
RECURSIVE ParseInt(_)
ParseInt(chars) ==
    IF chars = <<>> THEN 0
    ELSE 10 * ParseInt(SubSeq(chars, 1, Len(chars) - 1)) + DigitVal(chars[Len(chars)])

\* max(ids, default=dflt)
MaxOf(set, dflt) ==
    IF set = {} THEN dflt ELSE CHOOSE m \in set : \A y \in set : y <= m

\* mutant of _get_next_session_filename: counts the files instead of taking
\* the greatest id
GetNextSessionFilenameByCount(dir) ==
    SessPrefix \o Format03d(Cardinality(GlobSessions(dir)) + 1) \o XmlExt

\* mutant of _get_next_session_filename: the greatest id is handed out again
GetNextSessionFilenameReuse(dir) ==
    LET files == GlobSessions(dir)
    IN IF files = {} THEN SessPrefix \o <<"0", "0", "1">> \o XmlExt
       ELSE LET ids == {ParseInt(SuffixOf(f)) : f \in {g \in files : IsDigit(SuffixOf(g))}}
            IN SessPrefix \o Format03d(MaxOf(ids, 1)) \o XmlExt

\* _get_next_session_filename, on the names in the save directory
GetNextSessionFilename(dir) ==
    LET files == GlobSessions(dir)
    IN IF files = {} THEN SessPrefix \o <<"0", "0", "1">> \o XmlExt
       ELSE LET ids == {ParseInt(SuffixOf(f)) : f \in {g \in files : IsDigit(SuffixOf(g))}}
                max_id == MaxOf(ids, 0)
            IN SessPrefix \o Format03d(max_id + 1) \o XmlExt

\* code points of the characters that occur in file names, after str.lower()
Lower(c) ==
    CASE c = "S" -> "s" [] c = "E" -> "e" [] OTHER -> c
Ord(c) ==
    CASE c = "-" -> 45 [] c = "." -> 46
      [] c \in Digits -> 48 + DigitVal(c)
      [] c = "a" -> 97 [] c = "b" -> 98 [] c = "e" -> 101 [] c = "k" -> 107
      [] c = "l" -> 108 [] c = "m" -> 109 [] c = "s" -> 115 [] c = "x" -> 120

\* sorted(files, key=str.lower, reverse=True)[0]: the greatest name, found
\* position by position (a name that ends sorts before every longer one)
KeyAt(f, i) == IF i > Len(f) THEN 0 ELSE Ord(Lower(f[i]))
RECURSIVE LexMaxFrom(_, _)
LexMaxFrom(set, i) ==
    LET keys == {KeyAt(f, i) : f \in set}
        top == CHOOSE k \in keys : \A j \in keys : j <= k
        best == {f \in set : KeyAt(f, i) = top}
    IN IF top = 0 THEN CHOOSE f \in best : TRUE ELSE LexMaxFrom(best, i + 1)
LexMax(set) == LexMaxFrom(set, 1)

NoFile == <<>>

\* get_latest_save_file: first of the names sorted in descending order
GetLatestSaveFile(dir) ==
    LET files == GlobSessions(dir)
    IN IF files = {} THEN NoFile ELSE LexMax(files)

-----------------------------------------------------------------------------
(* Narration text.  A narration is a string; Words gives its tokens, on     *)
(* which the regular expressions of the turn loop are evaluated: a word of  *)
(* [\w'-] characters, a mark (a word that carries another character), a    *)
(* number, a line break, a bracketed tag, or an equals sign written        *)
(* without blanks around it.                                               *)

Word(w) == [k |-> "word", s |-> w, d |-> <<>>]
Mark(w) == [k |-> "mark", s |-> w, d |-> <<>>]
Num(chars) == [k |-> "num", s |-> Join(chars), d |-> chars]
Newline == [k |-> "nl", s |-> "\n", d |-> <<>>]
Tag(name) == [k |-> "tag", s |-> name, d |-> <<>>]
Eq == [k |-> "eq", s |-> "=", d |-> <<>>]

NarrUnavailable == "The world remains silent, as the AI storyteller is unavailable."
NarrError == "The AI storyteller stumbles, its words lost to the ether. (Error: timeout)"
NarrPlain == "You look around the inn."
NarrHit == "A goblin strikes you. DAMAGE: 3"
NarrBurn == "Dragon fire engulfs you.\ndamage: 20 DAMAGE: 3"
NarrMeet == "Mira [NPC] greets you. The Old Mill [location] is near."
NarrSlain == "The blade strikes true. DAMAGE: 10"
NarrEmpty == ""

\* narrations that carry entity tags or configuration directives
NarrGorak == "Gorak [NPC] roars. Gorak [NPC] charges."
NarrMira == "You meet Elder Mira [NPC] at the Sunken Market [MERCHANT]."
NarrInn == "The Forgotten Inn [LOCATION] glows. A Rusty Key [ITEM] lies here."
NarrConfig == "The rules shift. CONFIG: Set MaxSentences=7"
NarrConfigTail == "config: set MaxSentences=7 from now on.\nCONFIG: Set Tone=grim"
NarrConfigNew == "CONFIG: Set Tone=grim"
NarrStall == "The Sunken Market [MERCHANT] is loud. Elder Mira [NPC] waves."

\* narrations that name a skill
NarrSneak == "You slip into the shadows. SKILL: Stealth"
NarrPick == "SKILL: Lockpicking\nThe lock resists."
NarrPalm == "SKILL: Sleight of Hand. You palm the coin."
NarrQuiet == "Nothing stirs. SKILL: None"
NarrLower == "skill: stealth"
NarrUnseen == "You pass unseen."

\* narrations written on several lines
NarrChoices == "The door opens.\n1. Enter\n2. Leave"
NarrLead == "\nA cold wind."

Narrations ==
    {NarrUnavailable, NarrError, NarrPlain, NarrHit, NarrBurn, NarrSlain, NarrMeet, NarrEmpty}

Words(text) ==
    CASE text = NarrUnavailable ->
            << Word("The"), Word("world"), Word("remains"), Mark("silent,"), Word("as"),
               Word("the"), Word("AI"), Word("storyteller"), Word("is"), Mark("unavailable.") >>
      [] text = NarrError ->
            << Word("The"), Word("AI"), Word("storyteller"), Mark("stumbles,"), Word("its"),
               Word("words"), Word("lost"), Word("to"), Word("the"), Mark("ether."),
               Mark("(Error:"), Mark("timeout)") >>
      [] text = NarrPlain ->
            << Word("You"), Word("look"), Word("around"), Word("the"), Mark("inn.") >>
      [] text = NarrHit ->
            << Word("A"), Word("goblin"), Word("strikes"), Mark("you."),
               Mark("DAMAGE:"), Num(<<"3">>) >>
      [] text = NarrBurn ->
            << Word("Dragon"), Word("fire"), Word("engulfs"), Mark("you."), Newline,
               Mark("damage:"), Num(<<"2", "0">>), Mark("DAMAGE:"), Num(<<"3">>) >>
      [] text = NarrSlain ->
            << Word("The"), Word("blade"), Word("strikes"), Mark("true."),
               Mark("DAMAGE:"), Num(<<"1", "0">>) >>
      [] text = NarrMeet ->
            << Word("Mira"), Tag("NPC"), Word("greets"), Mark("you."),
               Word("The"), Word("Old"), Word("Mill"), Tag("location"), Word("is"),
               Mark("near.") >>
      [] text = NarrGorak ->
            << Word("Gorak"), Tag("NPC"), Mark("roars."), Word("Gorak"), Tag("NPC"),
               Mark("charges.") >>
      [] text = NarrMira ->
            << Word("You"), Word("meet"), Word("Elder"), Word("Mira"), Tag("NPC"),
               Word("at"), Word("the"), Word("Sunken"), Word("Market"), Tag("MERCHANT"),
               Mark(".") >>
      [] text = NarrInn ->
            << Word("The"), Word("Forgotten"), Word("Inn"), Tag("LOCATION"), Mark("glows."),
               Word("A"), Word("Rusty"), Word("Key"), Tag("ITEM"), Word("lies"),
               Mark("here.") >>
      [] text = NarrConfig ->
            << Word("The"), Word("rules"), Mark("shift."), Mark("CONFIG:"), Word("Set"),
               Word("MaxSentences"), Eq, Num(<<"7">>) >>
      [] text = NarrConfigTail ->
            << Mark("config:"), Word("set"), Word("MaxSentences"), Eq, Num(<<"7">>),
               Word("from"), Word("now"), Mark("on."), Newline,
               Mark("CONFIG:"), Word("Set"), Word("Tone"), Eq, Word("grim") >>
      [] text = NarrConfigNew ->
            << Mark("CONFIG:"), Word("Set"), Word("Tone"), Eq, Word("grim") >>
      [] text = NarrStall ->
            << Word("The"), Word("Sunken"), Word("Market"), Tag("MERCHANT"), Word("is"),
               Mark("loud."), Word("Elder"), Word("Mira"), Tag("NPC"), Mark("waves.") >>
      [] text = NarrSneak ->
            << Word("You"), Word("slip"), Word("into"), Word("the"), Mark("shadows."),
               Mark("SKILL:"), Word("Stealth") >>
      [] text = NarrPick ->
            << Mark("SKILL:"), Word("Lockpicking"), Newline,
               Word("The"), Word("lock"), Mark("resists.") >>
      [] text = NarrPalm ->
            << Mark("SKILL:"), Word("Sleight"), Word("of"), Mark("Hand."),
               Word("You"), Word("palm"), Word("the"), Mark("coin.") >>
      [] text = NarrQuiet ->
            << Word("Nothing"), Mark("stirs."), Mark("SKILL:"), Word("None") >>
      [] text = NarrLower ->
            << Mark("skill:"), Word("stealth") >>
      [] text = NarrUnseen ->
            << Word("You"), Word("pass"), Mark("unseen.") >>
      [] text = NarrChoices ->
            << Word("The"), Word("door"), Mark("opens."), Newline, Mark("1."), Word("Enter"),
               Newline, Mark("2."), Word("Leave") >>
      [] text = NarrLead ->
            << Newline, Word("A"), Word("cold"), Mark("wind.") >>
      [] OTHER -> <<>>

\* str.upper() on the directive keywords and tags (re.IGNORECASE)
Upper(w) ==
    CASE w = "damage:" -> "DAMAGE:"
      [] w = "location" -> "LOCATION"
      [] w = "config:" -> "CONFIG:"
      [] w = "set" -> "SET"
      [] w = "Set" -> "SET"
      [] OTHER -> w

\* re.search(r"DAMAGE:\s*(\d+)", ai_output, re.IGNORECASE): position of the
\* first match in the tokens, 0 when there is none
DamageMatch(text) ==
    LET w == Words(text)
        hits == {i \in 1..(Len(w) - 1) :
                    /\ w[i].k = "mark" /\ Upper(w[i].s) = "DAMAGE:"
                    /\ w[i + 1].k = "num"}
    IN IF hits = {} THEN 0 ELSE CHOOSE i \in hits : \A j \in hits : i <= j

\* int(damage_match.group(1))
DamageAmount(text) == ParseInt(Words(text)[DamageMatch(text) + 1].d)

\* the group ([\w\s'-]+) in front of the tag at position i, after strip():
\* the words and numbers that precede the tag, back to the last mark or tag
RECURSIVE RunBefore(_, _)
RunBefore(w, i) ==
    IF i = 0 \/ w[i].k \in {"mark", "tag"} THEN ""
    ELSE LET front == RunBefore(w, i - 1)
         IN IF w[i].k = "nl" THEN front
            ELSE IF front = "" THEN w[i].s ELSE front \o " " \o w[i].s

\* re.findall(r"([\w\s'-]+)\s*\[<tag>\]", ai_output, re.IGNORECASE), stripped
RECURSIVE TaggedFrom(_, _, _)
TaggedFrom(w, tag, i) ==
    IF i > Len(w) THEN <<>>
    ELSE IF w[i].k = "tag" /\ Upper(w[i].s) = tag /\ i > 1 /\ w[i - 1].k \notin {"mark", "tag"}
         THEN <<RunBefore(w, i - 1)>> \o TaggedFrom(w, tag, i + 1)
         ELSE TaggedFrom(w, tag, i + 1)
Tagged(text, tag) == TaggedFrom(Words(text), tag, 1)

\* extract_keywords_from_ai_output: pairs <<collection, names>>, in the order
\* of the returned dict; no pair for an empty narration
ExtractKeywords(text) ==
    IF text = "" THEN <<>>
    ELSE << <<"KeyNPCs", Tagged(text, "NPC") \o Tagged(text, "MERCHANT")>>,
            <<"KeyLocations", Tagged(text, "LOCATION") \o Tagged(text, "MERCHANT")>>,
            <<"KeyItems", Tagged(text, "ITEM")>> >>

\* ai_output.split('\n')[0]
RECURSIVE LineFrom(_, _)
LineFrom(w, i) ==
    IF i > Len(w) \/ w[i].k = "nl" THEN ""
    ELSE LET rest == LineFrom(w, i + 1)
             lead == IF w[i].k = "tag" THEN "[" \o w[i].s \o "]" ELSE w[i].s
             glued == w[i].k = "eq" \/ w[i + 1].k = "eq" \/ w[i + 1].s = "."
         IN IF rest = "" THEN lead
            ELSE IF glued THEN lead \o rest ELSE lead \o " " \o rest
FirstLine(text) == LineFrom(Words(text), 1)

-----------------------------------------------------------------------------
(* Progression engine: game_logic.py *)

MaxInt == 400

\* int(x) for an int, or for a str holding a decimal number
PyInt(x) == IF IsInt(x) THEN x.v ELSE CHOOSE n \in 0..MaxInt : IntToStr(n) = x.v

StatNames == <<"Strength", "Dexterity", "Constitution", "Intelligence", "Wisdom", "Charisma">>

\* mutant of check_level_up: the threshold does not grow with the level
CheckLevelUpFlatThreshold(gs, stat) ==
    LET xp == DGet(gs, "playerXP").v
        level == DGet(gs, "playerLevel").v
    IN IF xp >= 100
       THEN LET g1 == DPut(DPut(gs, "playerLevel", I(level + 1)), "playerXP", I(xp - 100))
                stats == DGet(g1, "playerStats")
                g2 == DPut(g1, "playerStats", DPut(stats, stat, I(DGet(stats, stat).v + 1)))
                g3 == DPut(g2, "playerMaxHitPoints", I(DGet(g2, "playerMaxHitPoints").v + 5))
            IN DPut(g3, "playerHitPoints", DGet(g3, "playerMaxHitPoints"))
       ELSE gs

\* check_level_up as it would be with a while loop in place of the if: levels
\* are gained as long as the XP reaches the threshold
RECURSIVE CheckLevelUpWhile(_, _)
CheckLevelUpWhile(gs, stat) ==
    LET xp == PyInt(DGetOr(gs, "playerXP", I(0)))
        level == PyInt(DGetOr(gs, "playerLevel", I(1)))
        threshold == 100 * level
    IN IF xp >= threshold
       THEN LET g1 == DPut(gs, "playerLevel", I(level + 1))
                g2 == DPut(g1, "playerXP", I(xp - threshold))
                stats == DGet(g2, "playerStats")
                g3 == DPut(g2, "playerStats", DPut(stats, stat, I(DGet(stats, stat).v + 1)))
                g4 == DPut(g3, "playerMaxHitPoints", I(DGet(g3, "playerMaxHitPoints").v + 5))
            IN CheckLevelUpWhile(DPut(g4, "playerHitPoints", DGet(g4, "playerMaxHitPoints")), stat)
       ELSE gs

\* check_level_up(game_state); stat is the value drawn by random.choice
\* check_level_up as it would be without the carry-over: the level is raised
\* and the XP are left as they are
CheckLevelUpKeepsXp(gs, stat) ==
    LET xp == PyInt(DGetOr(gs, "playerXP", I(0)))
        level == PyInt(DGetOr(gs, "playerLevel", I(1)))
        threshold == 100 * level
    IN IF xp >= threshold
       THEN LET g1 == DPut(gs, "playerLevel", I(level + 1))
                g2 == DPut(g1, "playerXP", I(xp))
                stats == DGet(g2, "playerStats")
                g3 == DPut(g2, "playerStats", DPut(stats, stat, I(DGet(stats, stat).v + 1)))
                g4 == DPut(g3, "playerMaxHitPoints", I(DGet(g3, "playerMaxHitPoints").v + 5))
            IN DPut(g4, "playerHitPoints", DGet(g4, "playerMaxHitPoints"))
       ELSE gs

CheckLevelUp(gs, stat) ==
    LET xp == PyInt(DGetOr(gs, "playerXP", I(0)))
        level == PyInt(DGetOr(gs, "playerLevel", I(1)))
        threshold == 100 * level
    IN IF xp >= threshold
       THEN LET g1 == DPut(gs, "playerLevel", I(level + 1))
                g2 == DPut(g1, "playerXP", I(xp - threshold))
                stats == DGet(g2, "playerStats")
                g3 == DPut(g2, "playerStats", DPut(stats, stat, I(DGet(stats, stat).v + 1)))
                g4 == DPut(g3, "playerMaxHitPoints", I(DGet(g3, "playerMaxHitPoints").v + 5))
            IN DPut(g4, "playerHitPoints", DGet(g4, "playerMaxHitPoints"))
       ELSE gs

revival_items == <<"Phoenix Feather", "Blessing of Resurrection">>

\* list.remove(x): drops the first occurrence
ListRemove(q, x) ==
    LET i == CHOOSE j \in DOMAIN q : q[j] = x /\ \A m \in 1..(j - 1) : q[m] # x
    IN SubSeq(q, 1, i - 1) \o SubSeq(q, i + 1, Len(q))

\* mutant of process_player_death: every occurrence of the item is removed
ProcessPlayerDeathRemoveAll(gs) ==
    LET inv == DGetOr(gs, "playerInventory", L(<<>>))
        found == {i \in DOMAIN revival_items : \E j \in DOMAIN inv.v : inv.v[j] = S(revival_items[i])}
    IN IF found = {}
       THEN [dead |-> TRUE, gs |-> gs]
       ELSE LET item == S(revival_items[CHOOSE i \in found : \A j \in found : i <= j])
                g1 == DPut(gs, "playerInventory", L(SelectSeq(inv.v, LAMBDA x : x # item)))
                half == DGetOr(g1, "playerMaxHitPoints", I(10)).v \div 2
            IN [dead |-> FALSE, gs |-> DPut(g1, "playerHitPoints", I(half))]

\* process_player_death(game_state): [dead, gs]
ProcessPlayerDeath(gs) ==
    LET inv == DGetOr(gs, "playerInventory", L(<<>>))
        found == {i \in DOMAIN revival_items : \E j \in DOMAIN inv.v : inv.v[j] = S(revival_items[i])}
    IN IF found = {}
       THEN [dead |-> TRUE, gs |-> gs]
       ELSE LET item == S(revival_items[CHOOSE i \in found : \A j \in found : i <= j])
                g1 == DPut(gs, "playerInventory", L(ListRemove(inv.v, item)))
                half == DGetOr(g1, "playerMaxHitPoints", I(10)).v \div 2
            IN [dead |-> FALSE, gs |-> DPut(g1, "playerHitPoints", I(half))]

\* game_state["playerHitPoints"] -= damage
SubtractDamage(gs, damage) ==
    DPut(gs, "playerHitPoints", I(DGet(gs, "playerHitPoints").v - damage))

\* the damage block of interactive_chat_loop: [dead, gs]
DamageStep(gs, text) ==
    IF DamageMatch(text) = 0 THEN [dead |-> FALSE, gs |-> gs]
    ELSE LET g1 == SubtractDamage(gs, DamageAmount(text))
         IN IF DGet(g1, "playerHitPoints").v <= 0
            THEN ProcessPlayerDeath(g1)
            ELSE [dead |-> FALSE, gs |-> g1]

\* game_state["playerXP"] = int(game_state.get("playerXP", 0)) + amount
GrantXP(gs, amount) == DPut(gs, "playerXP", I(PyInt(DGetOr(gs, "playerXP", I(0))) + amount))

-----------------------------------------------------------------------------
(* Turn processor: game_logic.py *)

MaxTurns == 1
MaxSessions == 2

\* datetime.now().isoformat() and date.today().isoformat(): one instant
Timestamp == "2024-01-01T00:00:00"
Today == "2024-01-01"
DefaultLocation == "The Forgotten Inn"

MetaCommands == {"help", "inventory", "i", "stats", "skills"}

\* name.replace(".xml", "")
RECURSIVE RemoveExt(_)
RemoveExt(f) ==
    IF Len(f) < Len(XmlExt) THEN f
    ELSE IF SubSeq(f, 1, Len(XmlExt)) = XmlExt THEN RemoveExt(SubSeq(f, Len(XmlExt) + 1, Len(f)))
    ELSE <<Head(f)>> \o RemoveExt(Tail(f))

SessionNames == {SessPrefix \o Format03d(n) \o XmlExt : n \in 1..(MaxSessions + 1)}

\* SAVE_DIRECTORY / f"{game_state['id']}.xml"
SavePathOf(gs) == CHOOSE f \in SessionNames : Join(f) = DGet(gs, "id").v \o ".xml"

\* initialize_new_game with the default answers; dir is the save directory
InitializeNewGame(dir) ==
    D(<< <<"id", S(Join(RemoveExt(GetNextSessionFilename(dir))))>>,
         <<"date", S(Today)>>,
         <<"gamemaster", S("AI Storyteller")>>,
         <<"campaignName", S("The Unwritten Tale")>>,
         <<"inGameDate", S("1492-06-15")>>,
         <<"currentLocation", S(DefaultLocation)>>,
         <<"lastRecap", S("Adventurer the Human Explorer arrives at The Forgotten Inn.")>>,
         <<"playerName", S("Adventurer")>>,
         <<"playerRace", S("Human")>>,
         <<"playerClass", S("Explorer")>>,
         <<"playerGender", S("not specified")>>,
         <<"playerBackground", S("Traveler from distant lands")>>,
         <<"Memory", D(<< <<"Fact", L(<<>>)>> >>)>>,
         <<"Log", D(<< <<"Entry", L(<<>>)>> >>)>>,
         <<"KeyNPCs", L(<<>>)>>,
         <<"KeyLocations", L(<<S(DefaultLocation)>>)>>,
         <<"KeyItems", L(<<>>)>>,
         <<"playerInventory", L(<<>>)>>,
         <<"playerGold", I(10)>>,
         <<"playerXP", I(0)>>,
         <<"playerLevel", I(1)>>,
         <<"playerHitPoints", I(10)>>,
         <<"playerMaxHitPoints", I(10)>>,
         <<"playerArmorClass", I(10)>>,
         <<"playerStats", D([i \in DOMAIN StatNames |-> <<StatNames[i], I(10)>>])>>,
         <<"playerSkills", D(<<>>)>>,
         <<"turn_counter", I(0)>> >>)

\* update_ai_memory(game_state, player_input, ai_response)
UpdateAiMemory(gs, player_input, ai_response) ==
    LET g1 == IF DHas(gs, "Memory") THEN gs ELSE DPut(gs, "Memory", D(<<>>))
        m1 == DGet(g1, "Memory")
        m2 == IF DHas(m1, "Fact") THEN m1 ELSE DPut(m1, "Fact", L(<<>>))
        fact == D(<< <<"timestamp", S(Timestamp)>>,
                     <<"player_input", S(player_input)>>,
                     <<"ai_response", S(ai_response)>> >>)
    IN DPut(g1, "Memory", DPut(m2, "Fact", L(Append(DGet(m2, "Fact").v, fact))))

\* game_state["Log"]["Entry"].append({...})
AppendLog(gs, type, content) ==
    LET log == DGet(gs, "Log")
        entry == D(<< <<"timestamp", S(Timestamp)>>, <<"type", S(type)>>,
                      <<"Content", S(content)>> >>)
    IN DPut(gs, "Log", DPut(log, "Entry", L(Append(DGet(log, "Entry").v, entry))))

XpPerTurn == 20

\* the end of a turn as it would be without the test of ai_output: the recap
\* is set after every turn
CompleteTurnAlwaysRecap(gs, c, roll, text, stat) ==
    LET g1 == DPut(gs, "lastRecap", S(FirstLine(text)))
        g2 == AppendLog(g1, "Turn", LogContent(c, roll, text))
    IN CheckLevelUp(GrantXP(g2, XpPerTurn), stat)

\* the end of a turn as it would be without the call of check_level_up
CompleteTurnNoLevelUp(gs, c, roll, text, stat) ==
    LET g1 == IF text # "" THEN DPut(gs, "lastRecap", S(FirstLine(text))) ELSE gs
        g2 == AppendLog(g1, "Turn", LogContent(c, roll, text))
    IN GrantXP(g2, XpPerTurn)

\* the end of a turn: recap, Turn log entry, XP grant and level-up
CompleteTurn(gs, c, roll, text, stat) ==
    LET g1 == IF text # "" THEN DPut(gs, "lastRecap", S(FirstLine(text))) ELSE gs
        g2 == AppendLog(g1, "Turn", LogContent(c, roll, text))
    IN CheckLevelUp(GrantXP(g2, XpPerTurn), stat)

\* mutant of the keyword loop: a name is appended whether it is there or not
RECURSIVE MergeNamesAlways(_, _, _)
MergeNamesAlways(gs, k, names) ==
    IF names = <<>> THEN gs
    ELSE LET v == S(Head(names))
             g1 == IF Head(names) # "" THEN DPut(gs, k, L(Append(DGet(gs, k).v, v))) ELSE gs
         IN MergeNamesAlways(g1, k, Tail(names))

\* the loop over the extracted keywords: a name is appended to its collection
\* unless it is empty or already there
RECURSIVE MergeNames(_, _, _)
MergeNames(gs, k, names) ==
    IF names = <<>> THEN gs
    ELSE LET v == S(Head(names))
             have == DGet(gs, k).v
             g1 == IF Head(names) # "" /\ \A i \in DOMAIN have : have[i] # v
                   THEN DPut(gs, k, L(Append(have, v)))
                   ELSE gs
         IN MergeNames(g1, k, Tail(names))
RECURSIVE MergeKeywords(_, _)
MergeKeywords(gs, keywords) ==
    IF keywords = <<>> THEN gs
    ELSE MergeKeywords(MergeNames(gs, Head(keywords)[1], Head(keywords)[2]), Tail(keywords))

TranscriptFile ==
    <<"f", "u", "l", "l", "_", "t", "r", "a", "n", "s", "c", "r", "i", "p", "t", ".", "x", "m", "l">>
AiConfigFile == <<"a", "i", "_", "c", "o", "n", "f", "i", "g", ".", "x", "m", "l">>

\* append_to_transcript as it would be if it never read the existing file
AppendToTranscriptFresh(d, player_input, text) ==
    LET turn == Element("Turn", << <<"timestamp", Timestamp>> >>, <<>>,
                        << Element("Player", <<>>, <<player_input>>, <<>>),
                           Element("AI", <<>>, <<text>>, <<>>) >>)
        doc == Stored(Element("Transcript", <<>>, <<>>, <<turn>>))
    IN [g \in DOMAIN d \cup {TranscriptFile} |-> IF g = TranscriptFile THEN doc ELSE d[g]]

\* append_to_transcript(player_input, ai_output): the save directory afterwards
AppendToTranscript(d, player_input, text) ==
    LET fresh == Element("Transcript", <<>>, <<>>, <<>>)
        root == IF TranscriptFile \notin DOMAIN d \/ d[TranscriptFile] = Corrupt
                THEN fresh ELSE d[TranscriptFile]
        turn == Element("Turn", << <<"timestamp", Timestamp>> >>, <<>>,
                        << Element("Player", <<>>, <<player_input>>, <<>>),
                           Element("AI", <<>>, <<text>>, <<>>) >>)
        doc == Stored(Element(root.tag, root.attrib, root.text, Append(root.children, turn)))
    IN [g \in DOMAIN d \cup {TranscriptFile} |-> IF g = TranscriptFile THEN doc ELSE d[g]]

\* the document load_ai_config writes when there is no configuration file
DefaultAiConfig ==
    Stored(Element("AIConfig", <<>>, <<>>,
        << Element("PromptInstructions", <<>>, <<"You are a Dungeons and Dragons game master.">>, <<>>),
           Element("MaxSentences", <<>>, <<"5">>, <<>>),
           Element("AlwaysTagEntities", <<>>, <<"true">>, <<>>) >>))

\* load_ai_config(): the save directory afterwards
LoadAiConfig(d) ==
    IF AiConfigFile \in DOMAIN d THEN d
    ELSE [g \in DOMAIN d \cup {AiConfigFile} |-> IF g = AiConfigFile THEN DefaultAiConfig ELSE d[g]]

\* re.search(r"CONFIG:\s*Set\s+(\w+)\s*=\s*([^\n\r]+)", ai_output, re.IGNORECASE):
\* position of the first match in the tokens, 0 when there is none.  The
\* value starts at the first token after the equals sign, line breaks skipped.
RECURSIVE SkipBreaks(_, _)
SkipBreaks(w, i) == IF i <= Len(w) /\ w[i].k = "nl" THEN SkipBreaks(w, i + 1) ELSE i
ConfigMatch(text) ==
    LET w == Words(text)
        hits == {i \in 1..(Len(w) - 3) :
                    /\ w[i].k = "mark" /\ Upper(w[i].s) = "CONFIG:"
                    /\ w[i + 1].k = "word" /\ Upper(w[i + 1].s) = "SET"
                    /\ w[i + 2].k \in {"word", "num"}
                    /\ w[i + 3].k = "eq"
                    /\ SkipBreaks(w, i + 4) <= Len(w)}
    IN IF hits = {} THEN 0 ELSE CHOOSE i \in hits : \A j \in hits : i <= j

\* match.group(1) and match.group(2).strip()
ConfigKey(text) == Words(text)[ConfigMatch(text) + 2].s
ConfigValue(text) == LineFrom(Words(text), SkipBreaks(Words(text), ConfigMatch(text) + 4))

\* root.find(key): index of the first child with this tag, 0 when there is none
FindChild(root, key) ==
    LET hits == {i \in DOMAIN root.children : root.children[i].tag = key}
    IN IF hits = {} THEN 0 ELSE CHOOSE i \in hits : \A j \in hits : i <= j

\* update_ai_config(key, value): [ok, disk]; ET.parse raises when the file is
\* missing or not well-formed
UpdateAiConfig(d, key, value) ==
    IF AiConfigFile \notin DOMAIN d \/ d[AiConfigFile] = Corrupt
    THEN [ok |-> FALSE, disk |-> d]
    ELSE LET root == d[AiConfigFile]
             at == FindChild(root, key)
             kids == IF at = 0
                     THEN Append(root.children, Element(key, <<>>, <<value>>, <<>>))
                     ELSE [root.children EXCEPT ![at].text = <<value>>]
             doc == Stored(Element(root.tag, root.attrib, root.text, kids))
         IN [ok |-> TRUE,
             disk |-> [g \in DOMAIN d |-> IF g = AiConfigFile THEN doc ELSE d[g]]]

\* parse_and_apply_ai_config_command(ai_output): [ok, disk]
ParseAndApplyAiConfigCommand(d, text) ==
    IF text = "" \/ ConfigMatch(text) = 0 THEN [ok |-> TRUE, disk |-> d]
    ELSE UpdateAiConfig(d, ConfigKey(text), ConfigValue(text))

\* the world event of every 15th turn; "" stands for no event text
WorldEventPeriod == 15
WorldEvents == {"", "A storm gathers over the hills."}

WriteFile(d, f, doc) == [g \in DOMAIN d \cup {f} |-> IF g = f THEN doc ELSE d[g]]

NoOp == [op |-> "none", hp |-> 0, arg |-> 0]
Op(name, hp, arg) == [op |-> name, hp |-> hp, arg |-> arg]

Init ==
    /\ pc = "Startup"
    /\ game_state = PyNone
    /\ save_path = NoFile
    /\ disk = [f \in {} |-> Corrupt]
    /\ cmd = ""
    /\ roll_result = 0
    /\ ai_output = ""
    /\ loaded = PyNone
    /\ last = NoOp
    /\ turns = 0
    /\ history = <<>>

\* choice other than "load", or no save file: a new game
StartNew ==
    /\ pc = "Startup"
    /\ Cardinality(GlobSessions(DOMAIN disk)) < MaxSessions
    /\ game_state' = InitializeNewGame(DOMAIN disk)
    /\ save_path' = SavePathOf(game_state')
    /\ pc' = "AwaitingInput"
    /\ last' = Op("new", 0, 0)
    /\ UNCHANGED <<disk, cmd, roll_result, ai_output, loaded, turns, history>>

\* StartLoad as it would be without the fallback to a new game: the None that
\* load_game_state returned is subscripted for its id
StartLoadNoFallback ==
    /\ pc = "Startup"
    /\ GetLatestSaveFile(DOMAIN disk) # NoFile
    /\ loaded' = LoadGameState(disk[GetLatestSaveFile(DOMAIN disk)])
    /\ game_state' = loaded'
    /\ save_path' = IF loaded' = PyNone THEN NoFile ELSE SavePathOf(loaded')
    /\ pc' = IF loaded' = PyNone THEN "Crashed" ELSE "AwaitingInput"
    /\ last' = Op("load", 0, 0)
    /\ UNCHANGED <<disk, cmd, roll_result, ai_output, turns, history>>

\* choice "load" with a latest save file
StartLoad ==
    /\ pc = "Startup"
    /\ GetLatestSaveFile(DOMAIN disk) # NoFile
    /\ loaded' = LoadGameState(disk[GetLatestSaveFile(DOMAIN disk)])
    /\ loaded' = PyNone => Cardinality(GlobSessions(DOMAIN disk)) < MaxSessions
    /\ game_state' = IF loaded' = PyNone THEN InitializeNewGame(DOMAIN disk) ELSE loaded'
    /\ save_path' = SavePathOf(game_state')
    /\ pc' = "AwaitingInput"
    /\ last' = Op("load", 0, 0)
    /\ UNCHANGED <<disk, cmd, roll_result, ai_output, turns, history>>

Quit ==
    /\ pc = "AwaitingInput"
    /\ cmd' = "quit"
    /\ pc' = "SessionEnded"
    /\ last' = Op("quit", 0, 0)
    /\ UNCHANGED <<game_state, save_path, disk, roll_result, ai_output, loaded, turns, history>>

\* SaveCmd as it would be if the file name were allocated when saving
SaveCmdNewName ==
    /\ pc = "AwaitingInput"
    /\ cmd' = "save"
    /\ disk' = WriteFile(disk, GetNextSessionFilename(DOMAIN disk), SaveDoc(game_state))
    /\ last' = Op("save", 0, 0)
    /\ UNCHANGED <<pc, game_state, save_path, roll_result, ai_output, loaded, turns, history>>

SaveCmd ==
    /\ pc = "AwaitingInput"
    /\ cmd' = "save"
    /\ disk' = WriteFile(disk, save_path, SaveDoc(game_state))
    /\ last' = Op("save", 0, 0)
    /\ UNCHANGED <<pc, game_state, save_path, roll_result, ai_output, loaded, turns, history>>

\* MetaCmd as it would be if the command fell through to the turn counter
MetaCmdCountsTurn ==
    /\ pc = "AwaitingInput"
    /\ \E c \in MetaCommands :
          /\ cmd' = c
          /\ LET tc == DGetOr(game_state, "turn_counter", I(0))
             IN game_state' = IF IsInt(tc) THEN DPut(game_state, "turn_counter", I(tc.v + 1))
                              ELSE game_state
          /\ last' = Op("meta", 0, 0)
    /\ UNCHANGED <<pc, save_path, disk, roll_result, ai_output, loaded, turns, history>>

\* help, inventory, stats and skills print and go back to the prompt; stats
\* and skills call .items() on the field, which raises AttributeError when
\* the field is not a dict
MetaCmd ==
    /\ pc = "AwaitingInput"
    /\ \E c \in MetaCommands :
          LET field == IF c = "stats" THEN "playerStats" ELSE "playerSkills"
              raises == c \in {"stats", "skills"} /\ ~IsDict(DGetOr(game_state, field, D(<<>>)))
          IN /\ cmd' = c
             /\ pc' = IF raises THEN "Crashed" ELSE pc
             /\ last' = Op(IF raises THEN "AttributeError" ELSE "meta", 0, 0)
    /\ UNCHANGED <<game_state, save_path, disk, roll_result, ai_output, loaded, turns, history>>

\* the start of a turn as it would be if the turn counter were converted with
\* int() before the addition
StartTurnCoerced(bound, rolls) ==
    /\ pc = "AwaitingInput"
    /\ \E c \in Commands : cmd' = c
    /\ turns < bound
    /\ turns' = turns + 1
    /\ game_state' = DPut(game_state, "turn_counter",
                          I(PyInt(DGetOr(game_state, "turn_counter", I(0))) + 1))
    /\ \E r \in rolls : roll_result' = r
    /\ pc' = "RollGenerated"
    /\ last' = Op("roll", 0, 0)
    /\ UNCHANGED <<save_path, disk, ai_output, loaded, history>>

\* turn_counter + 1 and the d20 roll; a turn counter that is not a number
\* raises TypeError, which ends the process.  bound caps the turns of a run
\* of the model, rolls are the outcomes of random.randint(1, 20) it draws.
StartTurnWith(bound, rolls) ==
    /\ pc = "AwaitingInput"
    /\ \E c \in Commands : cmd' = c
    /\ LET tc == DGetOr(game_state, "turn_counter", I(0))
       IN IF IsInt(tc)
          THEN /\ turns < bound
               /\ turns' = turns + 1
               /\ game_state' = DPut(game_state, "turn_counter", I(tc.v + 1))
               /\ \E r \in rolls : roll_result' = r
               /\ pc' = "RollGenerated"
               /\ last' = Op("roll", 0, 0)
               /\ UNCHANGED history
          ELSE /\ pc' = "Crashed"
               /\ last' = Op("TypeError", 0, 0)
               /\ UNCHANGED <<game_state, roll_result, turns, history>>
    /\ UNCHANGED <<save_path, disk, ai_output, loaded>>

StartTurn == StartTurnWith(MaxTurns, RollSet)

\* Narrate as it would be without the except clause of get_ai_narrative: a
\* failed call ends the process
NarrateUnguarded ==
    /\ pc = "RollGenerated"
    /\ \E text \in Narrations, event \in WorldEvents :
          LET tc == DGet(game_state, "turn_counter").v
              due == tc > 0 /\ tc % WorldEventPeriod = 0
              reads == text # NarrUnavailable
          IN /\ (~due \/ text = NarrUnavailable) => event = ""
             /\ ai_output' = IF text = NarrError THEN ai_output ELSE text
             /\ game_state' = IF event # "" THEN AppendLog(game_state, "WorldEvent", event)
                              ELSE game_state
             /\ disk' = IF reads \/ event # "" THEN LoadAiConfig(disk) ELSE disk
             /\ pc' = IF text = NarrError THEN "Crashed" ELSE "NarrationRequested"
             /\ last' = Op("narrate", 0, IF due THEN 1 ELSE 0)
    /\ UNCHANGED <<save_path, cmd, roll_result, loaded, turns, history>>

\* the world event check without the test of the period
NarrateOfAnyTurn(texts) ==
    /\ pc = "RollGenerated"
    /\ \E text \in texts, event \in WorldEvents :
          LET tc == DGet(game_state, "turn_counter").v
              due == tc > 0
              reads == text # NarrUnavailable
          IN /\ (~due \/ text = NarrUnavailable) => event = ""
             /\ ai_output' = text
             /\ game_state' = IF event # "" THEN AppendLog(game_state, "WorldEvent", event)
                              ELSE game_state
             /\ disk' = IF reads \/ event # "" THEN LoadAiConfig(disk) ELSE disk
             /\ last' = Op("narrate", 0, IF due THEN 1 ELSE 0)
    /\ pc' = "NarrationRequested"
    /\ UNCHANGED <<save_path, cmd, roll_result, loaded, turns, history>>

\* the world event check and get_ai_narrative: the narrator's answer, or one
\* of the fallback texts.  A narrator that is installed reads the configuration
\* file before it is asked (load_ai_config writes the default one when there
\* is none); the error fallback is the answer of a narrator that failed.  The
\* context file written and unlinked on the way is outside the save directory.
\* last.arg is the number of calls of get_ai_event.
NarrateOf(texts) ==
    /\ pc = "RollGenerated"
    /\ \E text \in texts, event \in WorldEvents :
          LET tc == DGet(game_state, "turn_counter").v
              due == tc > 0 /\ tc % WorldEventPeriod = 0
              reads == text # NarrUnavailable
          IN /\ (~due \/ text = NarrUnavailable) => event = ""
             /\ ai_output' = text
             /\ game_state' = IF event # "" THEN AppendLog(game_state, "WorldEvent", event)
                              ELSE game_state
             /\ disk' = IF reads \/ event # "" THEN LoadAiConfig(disk) ELSE disk
             /\ last' = Op("narrate", 0, IF due THEN 1 ELSE 0)
    /\ pc' = "NarrationRequested"
    /\ UNCHANGED <<save_path, cmd, roll_result, loaded, turns, history>>

Narrate == NarrateOf(Narrations)

\* mutant of the turn loop: the loop ends on death without the final save
ApplyDirectivesNoFinalSave ==
    /\ pc = "NarrationRequested"
    /\ LET g1 == UpdateAiMemory(game_state, cmd, ai_output)
           d1 == AppendToTranscript(disk, cmd, ai_output)
           cfg == ParseAndApplyAiConfigCommand(d1, ai_output)
           g2 == MergeKeywords(g1, ExtractKeywords(ai_output))
           r == DamageStep(g2, ai_output)
           hp0 == DGet(g2, "playerHitPoints").v
           dmg == IF DamageMatch(ai_output) = 0 THEN -1 ELSE DamageAmount(ai_output)
       IN /\ game_state' = r.gs
          /\ disk' = cfg.disk
          /\ pc' = IF r.dead THEN "SessionEnded" ELSE "DirectivesApplied"
          /\ last' = Op(IF r.dead THEN "death" ELSE "directives", hp0, dmg)
    /\ UNCHANGED <<save_path, cmd, roll_result, ai_output, loaded, turns, history>>

\* memory update, transcript, configuration directive, keywords and damage; a
\* death without revival saves the session and ends the loop; a configuration
\* directive that cannot be applied raises and ends the process
ApplyDirectives ==
    /\ pc = "NarrationRequested"
    /\ LET g1 == UpdateAiMemory(game_state, cmd, ai_output)
           d1 == AppendToTranscript(disk, cmd, ai_output)
           cfg == ParseAndApplyAiConfigCommand(d1, ai_output)
           g2 == MergeKeywords(g1, ExtractKeywords(ai_output))
           r == DamageStep(g2, ai_output)
           hp0 == DGet(g2, "playerHitPoints").v
           dmg == IF DamageMatch(ai_output) = 0 THEN -1 ELSE DamageAmount(ai_output)
       IN IF ~cfg.ok
          THEN /\ game_state' = g1
               /\ disk' = cfg.disk
               /\ pc' = "Crashed"
               /\ last' = Op("OSError", hp0, dmg)
          ELSE /\ game_state' = r.gs
               /\ IF r.dead
                  THEN /\ disk' = WriteFile(cfg.disk, save_path, SaveDoc(r.gs))
                       /\ pc' = "SessionEnded"
                       /\ last' = Op("death", hp0, dmg)
                  ELSE /\ disk' = cfg.disk
                       /\ pc' = "DirectivesApplied"
                       /\ last' = Op("directives", hp0, dmg)
    /\ UNCHANGED <<save_path, cmd, roll_result, ai_output, loaded, turns, history>>

\* FinishTurn as it would be without the save_game_state call that ends the turn
FinishTurnNoSave ==
    /\ pc = "DirectivesApplied"
    /\ \E i \in DOMAIN StatNames :
          game_state' = CompleteTurn(game_state, cmd, roll_result, ai_output, StatNames[i])
    /\ pc' = "Persisted"
    /\ last' = Op("persist", 0, 0)
    /\ UNCHANGED <<save_path, disk, cmd, roll_result, ai_output, loaded, turns, history>>

\* recap, log, XP, level-up and the save at the end of the turn
FinishTurn ==
    /\ pc = "DirectivesApplied"
    /\ \E i \in DOMAIN StatNames :
          game_state' = CompleteTurn(game_state, cmd, roll_result, ai_output, StatNames[i])
    /\ disk' = WriteFile(disk, save_path, SaveDoc(game_state'))
    /\ pc' = "Persisted"
    /\ last' = Op("persist", 0, 0)
    /\ UNCHANGED <<save_path, cmd, roll_result, ai_output, loaded, turns, history>>

\* back to the top of the while loop
NextPrompt ==
    /\ pc = "Persisted"
    /\ pc' = "AwaitingInput"
    /\ UNCHANGED <<game_state, save_path, disk, cmd, roll_result, ai_output, loaded, last, turns, history>>

\* the program is started again after it ended
Restart ==
    /\ pc \in {"SessionEnded", "Crashed"}
    /\ pc' = "Startup"
    /\ game_state' = PyNone
    /\ save_path' = NoFile
    /\ cmd' = ""
    /\ roll_result' = 0
    /\ ai_output' = ""
    /\ loaded' = PyNone
    /\ last' = NoOp
    /\ UNCHANGED <<disk, turns, history>>

Next ==
    \/ StartNew \/ StartLoad \/ Quit \/ SaveCmd \/ MetaCmd \/ StartTurn
    \/ Narrate \/ ApplyDirectives \/ FinishTurn \/ NextPrompt \/ Restart

Spec == Init /\ [][Next]_vars

-----------------------------------------------------------------------------
(* The turn loop over many turns: the same handlers, with one narration of *)
(* each kind, so that level-ups and the world event of turn 15 are reached. *)

MaxLongTurns == 15
LongNarrations == {NarrPlain, NarrSlain}
LongRolls == {20}

\* the save directory when the program starts: empty, or as an earlier run
\* left it (a new game, the save command, quit)
EarlierRun ==
    LET gs == InitializeNewGame({})
    IN WriteFile([f \in {} |-> Corrupt], SavePathOf(gs), SaveDoc(gs))
LongDisks == {[f \in {} |-> Corrupt], EarlierRun}

LongInit ==
    /\ pc = "Startup"
    /\ game_state = PyNone
    /\ save_path = NoFile
    /\ disk \in LongDisks
    /\ cmd = ""
    /\ roll_result = 0
    /\ ai_output = ""
    /\ loaded = PyNone
    /\ last = NoOp
    /\ turns = 0
    /\ history = <<>>

LongStartTurn == StartTurnWith(MaxLongTurns, LongRolls)
LongNarrate == NarrateOf(LongNarrations)

\* one run of the program, from the start-up choice to quit, death or a crash
LongNext ==
    \/ StartNew \/ StartLoad \/ Quit \/ SaveCmd \/ MetaCmd \/ LongStartTurn
    \/ LongNarrate \/ ApplyDirectives \/ FinishTurn \/ NextPrompt

SpecLong == LongInit /\ [][LongNext]_vars

\* the body of the while loop is sequential code: once a narration is there,
\* the interpreter goes on to the post-AI processing, to the end of the turn
\* and back to the top of the loop.  Under Next the only step that leaves
\* one of these positions is the handler of that position.
PcValues ==
    {"Startup", "AwaitingInput", "RollGenerated", "NarrationRequested",
     "DirectivesApplied", "Persisted", "SessionEnded", "Crashed"}
Leaves(p) == pc = p /\ pc' \in PcValues \ {p}
SpecLive ==
    /\ Spec
    /\ WF_pc(Leaves("NarrationRequested"))
    /\ WF_pc(Leaves("DirectivesApplied"))
    /\ WF_pc(Leaves("Persisted"))

-----------------------------------------------------------------------------
(* The turn loop on a file system that fails: a session file can be        *)
(* damaged between two runs, and a write of the session can raise OSError. *)

\* a session file is damaged while the program is not running
CorruptSessionFile ==
    /\ pc = "Startup"
    /\ \E f \in GlobSessions(DOMAIN disk) :
          /\ disk[f] # Corrupt
          /\ disk' = [disk EXCEPT ![f] = Corrupt]
    /\ UNCHANGED <<pc, game_state, save_path, cmd, roll_result, ai_output, loaded, last,
                   turns, history>>

\* what a write that raises leaves behind: the file as it was when it could
\* not be opened, a truncated file when the write broke off
FailedWrite(d, f) == {d, WriteFile(d, f, Corrupt)}

\* the save command when save_game_state raises: nothing catches the error
SaveCmdFails ==
    /\ pc = "AwaitingInput"
    /\ cmd' = "save"
    /\ disk' \in FailedWrite(disk, save_path)
    /\ pc' = "Crashed"
    /\ last' = Op("SaveFailed", 0, 0)
    /\ UNCHANGED <<game_state, save_path, roll_result, ai_output, loaded, turns, history>>

\* the end of a turn when the save_game_state call raises
FinishTurnFails ==
    /\ pc = "DirectivesApplied"
    /\ \E i \in DOMAIN StatNames :
          game_state' = CompleteTurn(game_state, cmd, roll_result, ai_output, StatNames[i])
    /\ disk' \in FailedWrite(disk, save_path)
    /\ pc' = "Crashed"
    /\ last' = Op("SaveFailed", 0, 0)
    /\ UNCHANGED <<save_path, cmd, roll_result, ai_output, loaded, turns, history>>

\* get_ai_narrative when the write of the temporary context document raises:
\* the except clause turns the error into the fallback narration
TempContextFails ==
    /\ pc = "RollGenerated"
    /\ ai_output' = NarrError
    /\ pc' = "NarrationRequested"
    /\ last' = Op("ContextFailed", 0, 0)
    /\ UNCHANGED <<game_state, save_path, disk, cmd, roll_result, loaded, turns, history>>

FaultNext ==
    \/ Next
    \/ CorruptSessionFile \/ SaveCmdFails \/ FinishTurnFails \/ TempContextFails

SpecFaults == Init /\ [][FaultNext]_vars

-----------------------------------------------------------------------------
(* Session store on its own: session files are allocated and looked up in  *)
(* directories that hold the files of earlier new games.                   *)

MaxNewSessions == 3

\* numbers of sessions already in the save directory when the program starts
StoreSeeds == {0, 1, 2, 9, 99, 998}

SessionFile(n) == SessPrefix \o Format03d(n) \o XmlExt
StrayFile == <<"S", "E", "S", "S", "-", "b", "a", "k", ".", "x", "m", "l">>

\* the document of a session that was saved before its first turn
StubDoc == Element("Session", <<>>, <<>>, <<>>)

StoreInit ==
    /\ pc = "Store"
    /\ game_state = PyNone
    /\ save_path = NoFile
    /\ \E k \in StoreSeeds, extra \in SUBSET {StrayFile, AiConfigFile} :
          disk = [f \in {SessionFile(n) : n \in 1..k} \cup extra |-> StubDoc]
    /\ cmd = ""
    /\ roll_result = 0
    /\ ai_output = ""
    /\ loaded = PyNone
    /\ last = NoOp
    /\ turns = 0
    /\ history = <<>>

\* a new game is started and saved: _get_next_session_filename names its file
StoreNewSession ==
    /\ pc = "Store"
    /\ Len(history) < MaxNewSessions
    /\ LET name == GetNextSessionFilename(DOMAIN disk)
       IN /\ disk' = WriteFile(disk, name, StubDoc)
          /\ save_path' = name
          /\ last' = [op |-> "alloc", dir |-> DOMAIN disk, name |-> name]
          /\ history' = Append(history, "new")
    /\ UNCHANGED <<pc, game_state, cmd, roll_result, ai_output, loaded, turns>>

\* the program is started and looks for the latest save file
StoreLatest ==
    /\ pc = "Store"
    /\ last.op # "latest"
    /\ last' = [op |-> "latest", dir |-> DOMAIN disk, name |-> GetLatestSaveFile(DOMAIN disk)]
    /\ UNCHANGED <<pc, game_state, save_path, disk, cmd, roll_result, ai_output, loaded,
                   turns, history>>

StoreNext == StoreNewSession \/ StoreLatest

SpecStore == StoreInit /\ [][StoreNext]_vars

-----------------------------------------------------------------------------
(* The codec on its own: synthetic sessions are saved and loaded back.     *)

MaxDepth == 1
MaxListLen == 2

CodecScalars == {S("a"), S("b")}

TuplesUpTo(V, n) == UNION {[1..m -> V] : m \in 0..n}

\* nested values: scalars, lists of up to MaxListLen values, and records with
\* an optional child "Fact" and an optional reserved text slot
RECURSIVE CodecValues(_)
CodecValues(depth) ==
    IF depth = 0 THEN CodecScalars
    ELSE LET V == CodecValues(depth - 1)
             lists == {L(q) : q \in TuplesUpTo(V, MaxListLen)}
             facts == {<<>>} \cup {<< <<"Fact", x>> >> : x \in V}
             texts == {<<>>, << <<"#text", S("a")>> >>}
             records == {D(f \o t) : f \in facts, t \in texts}
         IN V \cup lists \cup records

\* sessions: an id, optionally a Memory, optionally one more field
CodecSessions ==
    LET V == CodecValues(MaxDepth)
        ids == << <<"id", S("SESS-001")>> >>
        memories == {<<>>} \cup {<< <<"Memory", D(<< <<"Fact", L(q)>> >>)>> >> :
                                     q \in {<<>>, <<S("a"), S("b")>>}}
        fields == {<<>>} \cup {<< <<k, x>> >> : k \in {"KeyNPCs", "playerInventory"}, x \in V}
    IN {D(ids \o m \o f) : m \in memories, f \in fields}

RECURSIVE ListsAtLeast(_, _)
ListsAtLeast(x, n) ==
    CASE x.t = "list" -> Len(x.v) >= n /\ \A i \in DOMAIN x.v : ListsAtLeast(x.v[i], n)
      [] x.t = "dict" -> \A i \in DOMAIN x.v : ListsAtLeast(x.v[i][2], n)
      [] OTHER -> TRUE

CodecInit ==
    /\ pc = "CodecInput"
    /\ game_state \in CodecSessions
    /\ save_path = SessionFile(1)
    /\ disk = [f \in {} |-> Corrupt]
    /\ cmd = ""
    /\ roll_result = 0
    /\ ai_output = ""
    /\ loaded = PyNone
    /\ last = NoOp
    /\ turns = 0
    /\ history = <<>>

\* save_game_state(game_state, save_path)
CodecSave ==
    /\ pc = "CodecInput"
    /\ disk' = WriteFile(disk, save_path, SaveDoc(game_state))
    /\ pc' = "CodecSaved"
    /\ UNCHANGED <<game_state, save_path, cmd, roll_result, ai_output, loaded, last,
                   turns, history>>

\* load_game_state(save_path)
CodecLoad ==
    /\ pc = "CodecSaved"
    /\ loaded' = LoadGameState(disk[save_path])
    /\ pc' = "CodecLoaded"
    /\ UNCHANGED <<game_state, save_path, disk, cmd, roll_result, ai_output, last,
                   turns, history>>

CodecNext == CodecSave \/ CodecLoad

SpecCodec == CodecInit /\ [][CodecNext]_vars

\* C1: a session (a record that holds a Memory record) in which every list
\* has at least two elements is equal to the session decoded from the document
\* that save_game_state wrote for it.
CodecRoundTrip ==
    (pc = "CodecLoaded" /\ DHas(game_state, "Memory") /\ ListsAtLeast(game_state, 2))
        => PyEq(loaded, game_state)

-----------------------------------------------------------------------------
(* The node parser on its own: _parse_xml_node is applied to nodes that    *)
(* hold up to MaxChildren leaf children, with or without an attribute.     *)

MaxChildren == 3

ParseLeaves == {Element(t, <<>>, <<x>>, <<>>) : t \in {"a", "b"}, x \in {"x", "y"}}
ParseAttribs == {<<>>, << <<"a", "1">> >>}
ParseNodes ==
    {Element("n", at, <<>>, kids) :
        at \in ParseAttribs, kids \in TuplesUpTo(ParseLeaves, MaxChildren) \ {<<>>}}

ParseInit ==
    /\ pc = "ParseInput"
    /\ game_state = PyNone
    /\ save_path = NoFile
    /\ disk = [f \in {} |-> Corrupt]
    /\ cmd = ""
    /\ roll_result = 0
    /\ ai_output = ""
    /\ loaded = PyNone
    /\ \E node \in ParseNodes : last = [op |-> "node", arg |-> node]
    /\ turns = 0
    /\ history = <<>>

\* _parse_xml_node(node)
ParseNode ==
    /\ pc = "ParseInput"
    /\ loaded' = ParseXmlNode(last.arg)
    /\ pc' = "Parsed"
    /\ UNCHANGED <<game_state, save_path, disk, cmd, roll_result, ai_output, last,
                   turns, history>>

ParseNext == ParseNode

SpecParse == ParseInit /\ [][ParseNext]_vars

-----------------------------------------------------------------------------
(* The progression engine on its own: XP grants, level-up checks and       *)
(* damage are applied to synthetic sessions.                               *)

MaxOps == 3

GrantAmounts == {50, 100}
DamageTexts == {NarrHit, NarrBurn}

Inventories ==
    { <<>>,
      <<S("Rope")>>,
      <<S("Phoenix Feather")>>,
      <<S("Rope"), S("Blessing of Resurrection"), S("Phoenix Feather")>>,
      <<S("Phoenix Feather"), S("Rope"), S("Phoenix Feather")>> }

ProgSession(xp, level, hp, maxhp, inv) ==
    D(<< <<"playerInventory", L(inv)>>,
         <<"playerXP", I(xp)>>,
         <<"playerLevel", I(level)>>,
         <<"playerHitPoints", I(hp)>>,
         <<"playerMaxHitPoints", I(maxhp)>>,
         <<"playerStats", D([i \in DOMAIN StatNames |-> <<StatNames[i], I(10)>>])>> >>)

ProgInit ==
    /\ pc = "Prog"
    /\ \E xl \in {<<0, 1>>, <<350, 1>>, <<150, 2>>}, hm \in {<<3, 20>>, <<5, 20>>, <<5, 21>>},
          inv \in Inventories :
          /\ game_state = ProgSession(xl[1], xl[2], hm[1], hm[2], inv)
          /\ history = <<[op |-> "start", arg |-> xl]>>
    /\ save_path = NoFile
    /\ disk = [f \in {} |-> Corrupt]
    /\ cmd = ""
    /\ roll_result = 0
    /\ ai_output = ""
    /\ loaded = PyNone
    /\ last = NoOp
    /\ turns = 0

ProgOp(name, arg, before) == [op |-> name, arg |-> arg, before |-> before]
Applied(name, arg) == [op |-> name, arg |-> arg]

\* an XP grant followed by check_level_up, as at the end of a turn
ProgGrant ==
    /\ pc = "Prog"
    /\ Len(history) <= MaxOps
    /\ \E amount \in GrantAmounts, i \in DOMAIN StatNames :
          /\ game_state' = CheckLevelUp(GrantXP(game_state, amount), StatNames[i])
          /\ last' = ProgOp("grant", amount, game_state)
          /\ history' = Append(history, Applied("grant", amount))
    /\ UNCHANGED <<pc, save_path, disk, cmd, roll_result, ai_output, loaded, turns>>

\* one call of check_level_up
ProgCheck ==
    /\ pc = "Prog"
    /\ Len(history) <= MaxOps
    /\ \E i \in DOMAIN StatNames :
          game_state' = CheckLevelUp(game_state, StatNames[i])
    /\ last' = ProgOp("check", 0, game_state)
    /\ history' = Append(history, Applied("check", 0))
    /\ UNCHANGED <<pc, save_path, disk, cmd, roll_result, ai_output, loaded, turns>>

\* the damage block of the turn loop, on a narration that carries a DAMAGE tag
ProgDamage ==
    /\ pc = "Prog"
    /\ Len(history) <= MaxOps
    /\ \E text \in DamageTexts :
          LET r == DamageStep(game_state, text)
          IN /\ game_state' = r.gs
             /\ pc' = IF r.dead THEN "SessionEnded" ELSE "Prog"
             /\ ai_output' = text
             /\ last' = ProgOp("damage", DamageAmount(text), game_state)
             /\ history' = Append(history, Applied("damage", DamageAmount(text)))
    /\ UNCHANGED <<save_path, disk, cmd, roll_result, loaded, turns>>

ProgNext == ProgGrant \/ ProgCheck \/ ProgDamage

SpecProgression == ProgInit /\ [][ProgNext]_vars

\* fields of a session as numbers
HP(gs) == DGet(gs, "playerHitPoints").v
MaxHP(gs) == DGet(gs, "playerMaxHitPoints").v
XP(gs) == DGet(gs, "playerXP").v
Level(gs) == DGet(gs, "playerLevel").v
Inventory(gs) == DGet(gs, "playerInventory").v

Count(q, x) == Cardinality({i \in DOMAIN q : q[i] = x})
HasRevivalItem(gs) ==
    \E i \in DOMAIN revival_items : Count(Inventory(gs), S(revival_items[i])) > 0

Max0(n) == IF n < 0 THEN 0 ELSE n

ScenarioGrants ==
    << [op |-> "start", arg |-> <<0, 1>>], Applied("grant", 100), Applied("grant", 100),
       Applied("grant", 50) >>

\* C4: a DAMAGE directive of amount d on a session with h hit points (and no
\* revival item) leaves max(0, h - d) hit points, never a negative number.
DamageClamped ==
    (last.op = "damage" /\ ~HasRevivalItem(last.before))
        => HP(game_state) = Max0(HP(last.before) - last.arg)

\* C5, as claimed: from level 1 and 0 XP, grants of 100, 100 and 50 XP, each
\* followed by the level-up check, end at level 2 with 50 XP.
LevelUpScenarioEndsAt50 ==
    history = ScenarioGrants => (Level(game_state) = 2 /\ XP(game_state) = 50)

\* C5, amended: the same grants end at level 2 with 150 XP (100 XP are used
\* for level 2, and the 200 XP for level 3 are not reached).
LevelUpScenarioEndsAt150 ==
    history = ScenarioGrants => (Level(game_state) = 2 /\ XP(game_state) = 150)

LevelUpScenarioDone ==
    history = ScenarioGrants /\ Level(game_state) = 2 /\ XP(game_state) = 150

\* C6: after one call of check_level_up the XP is below the threshold of the
\* level reached, however much XP the session held.
OneCallLevelsUpFully ==
    last.op = "check" => XP(game_state) < 100 * Level(game_state)

\* C7: when damage brings the hit points to 0 or below and the inventory holds
\* a revival item, exactly one occurrence of the first revival item present is
\* removed, nothing else changes in the inventory, the hit points are
\* floor(maxHitPoints / 2) and the session goes on.
RevivalCorrect ==
    (/\ last.op = "damage"
     /\ HP(last.before) - last.arg <= 0
     /\ HasRevivalItem(last.before))
    => LET inv0 == Inventory(last.before)
           inv1 == Inventory(game_state)
           first == CHOOSE i \in DOMAIN revival_items :
                       /\ Count(inv0, S(revival_items[i])) > 0
                       /\ \A j \in 1..(i - 1) : Count(inv0, S(revival_items[j])) = 0
           used == S(revival_items[first])
       IN /\ Len(inv1) = Len(inv0) - 1
          /\ \A x \in {inv0[i] : i \in DOMAIN inv0} :
                Count(inv1, x) = Count(inv0, x) - (IF x = used THEN 1 ELSE 0)
          /\ \E i \in DOMAIN inv0 :
                inv0[i] = used /\ inv1 = SubSeq(inv0, 1, i - 1) \o SubSeq(inv0, i + 1, Len(inv0))
          /\ HP(game_state) = MaxHP(last.before) \div 2
          /\ MaxHP(game_state) = MaxHP(last.before)
          /\ pc # "SessionEnded"
          /\ (MaxHP(last.before) = 20 /\ inv0 = <<S("Phoenix Feather")>>
                => HP(game_state) = 10 /\ inv1 = <<>>)

RevivedByFeather ==
    /\ last.op = "damage"
    /\ HP(last.before) = 5 /\ last.arg = 20 /\ MaxHP(last.before) = 20
    /\ Inventory(last.before) = <<S("Phoenix Feather")>>
    /\ HP(game_state) = 10
    /\ Inventory(game_state) = <<>>
    /\ pc = "Prog"

-----------------------------------------------------------------------------
(* Properties of the turn loop (specification Spec) *)

SessionFields ==
    { "turn_counter", "playerHitPoints", "playerMaxHitPoints", "playerXP", "playerLevel",
      "playerStats", "playerSkills", "playerInventory", "Memory", "Log",
      "KeyNPCs", "KeyLocations", "KeyItems" }

\* C2: after a turn has been persisted, loading the session file gives back
\* every field of the session with the same value and shape, and no turn on a
\* loaded session ends the process with an error.
RestartPreservesSession ==
    /\ pc = "Persisted" =>
          LET back == LoadGameState(disk[save_path])
          IN /\ back # PyNone
             /\ \A k \in SessionFields :
                   DHas(game_state, k) =>
                      DHas(back, k) /\ PyEq(DGet(back, k), DGet(game_state, k))
    /\ pc # "Crashed"

\* C3: the hit points of the session are between 0 and the maximum, in every
\* state of a session started as a new game, the state saved on death included.
HitPointsInRange ==
    (game_state # PyNone /\ IsInt(DGet(game_state, "playerHitPoints")))
        => /\ 0 <= HP(game_state)
           /\ HP(game_state) <= MaxHP(game_state)

Fatal(gs, text) ==
    /\ DamageMatch(text) # 0
    /\ HP(gs) - DamageAmount(text) <= 0
    /\ ~HasRevivalItem(gs)

\* C8: a death without revival item saves the session and ends the loop; the
\* loop ends only by quit or by such a death; nothing is processed afterwards.
DeathIsTerminal ==
    /\ [][(pc = "NarrationRequested" /\ Fatal(game_state, ai_output))
            => /\ pc' = "SessionEnded"
               /\ HP(game_state') <= 0
               /\ save_path \in DOMAIN disk'
               /\ disk'[save_path] = SaveDoc(game_state')]_vars
    /\ [][(pc # "SessionEnded" /\ pc' = "SessionEnded")
            => \/ /\ pc = "AwaitingInput" /\ cmd' = "quit"
                  /\ UNCHANGED <<game_state, disk>>
               \/ /\ pc = "NarrationRequested" /\ Fatal(game_state, ai_output)]_vars
    /\ [][pc = "SessionEnded"
            => /\ pc' = "Startup"
               /\ game_state' = PyNone
               /\ UNCHANGED <<disk, turns>>]_vars

DeathPersisted ==
    /\ pc = "SessionEnded"
    /\ last.op = "death"
    /\ HP(game_state) <= 0
    /\ ~HasRevivalItem(game_state)
    /\ disk[save_path] = SaveDoc(game_state)

-----------------------------------------------------------------------------
(* Properties of the session store (specification SpecStore) *)

NumericSessions(dir) == {f \in GlobSessions(dir) : IsDigit(SuffixOf(f))}
SessionIds(dir) == {ParseInt(SuffixOf(f)) : f \in NumericSessions(dir)}

\* C9: the allocated name is SESS-<n+1>.xml, the number written with at least
\* three digits, where n is the greatest numeric suffix among the session
\* files of the directory (0 when there is none).
AllocatedNameCorrect ==
    last.op = "alloc" =>
       LET ids == SessionIds(last.dir)
           digits == SubSeq(last.name, Len(SessPrefix) + 1, Len(last.name) - Len(XmlExt))
       IN /\ last.name = SessPrefix \o digits \o XmlExt
          /\ IsDigit(digits)
          /\ Len(digits) >= 3
          /\ Len(digits) > 3 => digits[1] # "0"
          /\ \A n \in ids : n < ParseInt(digits)
          /\ ids = {} => ParseInt(digits) = 1
          /\ ids # {} => (ParseInt(digits) - 1) \in ids
          /\ ids = {} => last.name = <<"S", "E", "S", "S", "-", "0", "0", "1", ".", "x", "m", "l">>
          /\ ids = {1, 2} => last.name = <<"S", "E", "S", "S", "-", "0", "0", "3", ".", "x", "m", "l">>

AllocatedThird ==
    /\ last.op = "alloc"
    /\ GlobSessions(last.dir) = {SessionFile(1), SessionFile(2)}
    /\ last.name = <<"S", "E", "S", "S", "-", "0", "0", "3", ".", "x", "m", "l">>

\* C10: when every session file of the directory was produced by id
\* allocation, the latest save file is the one with the greatest session
\* number, and there is none when the directory holds no session file.
LatestIsNewest ==
    (last.op = "latest" /\ NumericSessions(last.dir) = GlobSessions(last.dir))
       => IF GlobSessions(last.dir) = {} THEN last.name = NoFile
          ELSE /\ last.name \in GlobSessions(last.dir)
               /\ \A f \in GlobSessions(last.dir) :
                     ParseInt(SuffixOf(f)) <= ParseInt(SuffixOf(last.name))

-----------------------------------------------------------------------------
(* The directives of a narration on their own: keyword merge, configuration *)
(* directive and transcript are applied to a new session and to save       *)
(* directories with and without the configuration and transcript files.    *)

MaxDirectives == 3

DirNarrations ==
    {NarrPlain, NarrMeet, NarrGorak, NarrMira, NarrInn, NarrConfig, NarrConfigTail,
     NarrConfigNew, NarrEmpty, NarrStall}

\* a transcript that holds one earlier turn
OldTranscript == AppendToTranscript([f \in {} |-> Corrupt], "wait", NarrPlain)[TranscriptFile]

\* save directories: each of the two files is absent, well-formed or damaged
DirDisks ==
    {[f \in DOMAIN fs |-> fs[f]] :
        fs \in UNION {[F -> {"ok", "bad"}] : F \in SUBSET {AiConfigFile, TranscriptFile}}}

DirDoc(f, kind) ==
    IF kind = "bad" THEN Corrupt
    ELSE IF f = AiConfigFile THEN DefaultAiConfig ELSE OldTranscript

DirInit ==
    /\ pc = "Directives"
    /\ game_state = InitializeNewGame({})
    /\ save_path = SavePathOf(game_state)
    /\ \E kinds \in DirDisks : disk = [f \in DOMAIN kinds |-> DirDoc(f, kinds[f])]
    /\ cmd = ""
    /\ roll_result = 0
    /\ ai_output = ""
    /\ loaded = PyNone
    /\ last = NoOp
    /\ turns = 0
    /\ history = <<>>

\* the keyword loop of the turn, on the keywords of one narration
DirMerge ==
    /\ pc = "Directives"
    /\ turns < MaxDirectives
    /\ \E text \in DirNarrations :
          /\ game_state' = MergeKeywords(game_state, ExtractKeywords(text))
          /\ ai_output' = text
          /\ last' = ProgOp("merge", text, game_state)
    /\ turns' = turns + 1
    /\ UNCHANGED <<pc, save_path, disk, cmd, roll_result, loaded, history>>

\* parse_and_apply_ai_config_command(ai_output)
DirConfig ==
    /\ pc = "Directives"
    /\ turns < MaxDirectives
    /\ \E text \in DirNarrations :
          LET r == ParseAndApplyAiConfigCommand(disk, text)
          IN /\ disk' = r.disk
             /\ pc' = IF r.ok THEN "Directives" ELSE "Crashed"
             /\ ai_output' = text
             /\ last' = ProgOp("config", text, disk)
    /\ turns' = turns + 1
    /\ UNCHANGED <<game_state, save_path, cmd, roll_result, loaded, history>>

\* append_to_transcript(cmd, ai_output)
DirTranscript ==
    /\ pc = "Directives"
    /\ turns < MaxDirectives
    /\ \E c \in Commands, text \in {NarrPlain, NarrEmpty, NarrBurn} :
          /\ disk' = AppendToTranscript(disk, c, text)
          /\ cmd' = c
          /\ ai_output' = text
          /\ last' = ProgOp("transcript", text, disk)
    /\ turns' = turns + 1
    /\ UNCHANGED <<pc, game_state, save_path, roll_result, loaded, history>>

DirNext == DirMerge \/ DirConfig \/ DirTranscript

SpecDirectives == DirInit /\ [][DirNext]_vars

Collections == {"KeyNPCs", "KeyLocations", "KeyItems"}
Names(gs, k) == DGet(gs, k).v
NameSet(q) == {q[i] : i \in DOMAIN q}
NoDuplicates(q) == \A i, j \in DOMAIN q : q[i] = q[j] => i = j
IsPrefix(a, b) == Len(a) <= Len(b) /\ SubSeq(b, 1, Len(a)) = a
FirstAt(q, x) == CHOOSE i \in DOMAIN q : q[i] = x /\ \A j \in 1..(i - 1) : q[j] # x

\* the names a narration carries for a collection
Found(text, k) ==
    LET kw == ExtractKeywords(text)
        hit == {i \in DOMAIN kw : kw[i][1] = k}
    IN IF hit = {} THEN <<>>
       ELSE LET names == kw[CHOOSE i \in hit : TRUE][2]
            IN [i \in DOMAIN names |-> S(names[i])]

\* C11: no collection of entity names ever holds a name twice; a merge keeps
\* the names that were there at their positions, changes nothing when every
\* name of the narration is already there, and appends the new names after
\* the old ones in the order in which they were first seen.
EntityMergeIdempotent ==
    /\ \A k \in Collections : NoDuplicates(Names(game_state, k))
    /\ last.op = "merge" =>
          \A k \in Collections :
             LET old == Names(last.before, k)
                 new == Names(game_state, k)
                 found == Found(last.arg, k)
                 fresh == NameSet(found) \ (NameSet(old) \cup {S("")})
             IN /\ IsPrefix(old, new)
                /\ NameSet(new) = NameSet(old) \cup fresh
                /\ Len(new) = Len(old) + Cardinality(fresh)
                /\ fresh = {} => new = old
                /\ \A a, b \in fresh :
                      FirstAt(found, a) < FirstAt(found, b) => FirstAt(new, a) < FirstAt(new, b)

GorakMergedTwice ==
    /\ last.op = "merge"
    /\ last.arg = NarrGorak
    /\ Names(last.before, "KeyNPCs") = <<S("Gorak")>>
    /\ Names(game_state, "KeyNPCs") = <<S("Gorak")>>

\* C12: the narration "You meet Elder Mira [NPC] at the Sunken Market
\* [MERCHANT]." adds exactly "Elder Mira" and "Sunken Market" to KeyNPCs and
\* exactly "Sunken Market" to KeyLocations.
EntityTagScenario ==
    (last.op = "merge" /\ last.arg = NarrMira /\ last.before = InitializeNewGame({}))
       => /\ Names(game_state, "KeyNPCs") = <<S("Elder Mira"), S("Sunken Market")>>
          /\ Names(game_state, "KeyLocations") = <<S(DefaultLocation), S("Sunken Market")>>
          /\ Names(game_state, "KeyItems") = <<>>

\* the configuration as a mapping: the text of the first child of each tag
ConfigKeys(doc) == {doc.children[i].tag : i \in DOMAIN doc.children}
ConfigAt(doc, key) == doc.children[FindChild(doc, key)].text

\* the value written in the directive: the word that follows the equals sign
DirectiveValue(text) == Words(text)[SkipBreaks(Words(text), ConfigMatch(text) + 4)].s

\* C13: after a narration with a directive CONFIG: Set <key>=<value> has been
\* processed, the configuration maps <key> to <value> (the first directive of
\* the text only; the key is created when absent) and every other key keeps
\* its value; MaxSentences=7 sets MaxSentences to "7".
ConfigDirectiveApplied ==
    (/\ last.op = "config"
     /\ ConfigMatch(last.arg) # 0
     /\ AiConfigFile \in DOMAIN last.before
     /\ last.before[AiConfigFile] # Corrupt)
    => LET old == last.before[AiConfigFile]
           new == disk[AiConfigFile]
           key == ConfigKey(last.arg)
       IN /\ pc = "Directives"
          /\ ConfigKeys(new) = ConfigKeys(old) \cup {key}
          /\ ConfigAt(new, key) = <<DirectiveValue(last.arg)>>
          /\ \A k \in ConfigKeys(old) \ {key} : ConfigAt(new, k) = ConfigAt(old, k)
          /\ key = "MaxSentences" => ConfigAt(new, key) = <<"7">>

Fallbacks == {NarrUnavailable, NarrError}
Facts(gs) == DGet(DGet(gs, "Memory"), "Fact").v
Entries(gs) == DGet(DGet(gs, "Log"), "Entry").v

\* what the steps of a turn do when the narration is a fallback text
FallbackTurnSteps ==
    /\ pc = "RollGenerated" => pc' = "NarrationRequested" /\ ai_output' \in Narrations
    /\ (pc = "NarrationRequested" /\ ai_output \in Fallbacks)
          => /\ pc' = "DirectivesApplied"
             /\ Len(Facts(game_state')) = Len(Facts(game_state)) + 1
             /\ LET f == Facts(game_state')[Len(Facts(game_state'))]
                IN DGet(f, "player_input") = S(cmd) /\ DGet(f, "ai_response") = S(ai_output)
    /\ (pc = "DirectivesApplied" /\ ai_output \in Fallbacks)
          => /\ pc' = "Persisted"
             /\ Len(Entries(game_state')) = Len(Entries(game_state)) + 1
             /\ DGet(Entries(game_state')[Len(Entries(game_state'))], "type") = S("Turn")
             /\ XP(game_state') = XP(game_state) + XpPerTurn
             /\ save_path \in DOMAIN disk' /\ disk'[save_path] = SaveDoc(game_state')
    /\ (pc = "Persisted" /\ ai_output \in Fallbacks)
          => pc' = "AwaitingInput" /\ game_state' = game_state /\ disk' = disk

\* C14: a turn whose narration is one of the fallback texts of get_ai_narrative
\* runs to completion: the narrator always hands back a narration, a memory
\* fact and a Turn log entry are appended, XP is granted, the session is
\* saved and the loop comes back to the prompt.
NarratorFailureNotFatal ==
    /\ [][FallbackTurnSteps]_vars
    /\ (pc = "NarrationRequested" /\ ai_output \in Fallbacks)
          ~> (pc = "AwaitingInput" /\ ai_output \in Fallbacks /\ last.op = "persist")

\* a turn with a failed narrator has been completed and the loop is at the prompt
FallbackTurnCompleted ==
    /\ pc = "AwaitingInput" /\ ai_output = NarrError /\ last.op = "persist"
    /\ Len(Facts(game_state)) = 1 /\ XP(game_state) = XpPerTurn

\* C15: save, help, inventory, stats and skills leave the in-memory session as
\* it was: the turn counter, Memory, Log, XP, level and hit points are
\* unchanged, no roll is drawn and no narration is requested.
MetaCommandsAreNeutral ==
    [][(pc = "AwaitingInput" /\ cmd' \in MetaCommands \cup {"save"})
          => /\ game_state' = game_state
             /\ roll_result' = roll_result
             /\ ai_output' = ai_output
             /\ turns' = turns]_vars

\* a meta-command has been handled in a session that has played a turn
MetaCommandHandled ==
    /\ pc = "AwaitingInput" /\ cmd \in MetaCommands /\ last.op = "meta"
    /\ DGetOr(game_state, "turn_counter", I(0)) = I(1)

TurnsPlayed(gs) == DGetOr(gs, "turn_counter", I(0))

\* C16: whenever the loop is at the input prompt and the session has completed
\* a turn in this run, the session file holds the encoding of the session in
\* memory.
PersistedAfterEveryTurn ==
    (pc = "AwaitingInput" /\ IsInt(TurnsPlayed(game_state)) /\ TurnsPlayed(game_state).v >= 1)
       => /\ save_path \in DOMAIN disk
          /\ disk[save_path] = SaveDoc(game_state)

\* the loop is back at the prompt after a turn that wounded the player
PromptAfterWoundingTurn ==
    /\ pc = "AwaitingInput" /\ TurnsPlayed(game_state) = I(1)
    /\ DamageMatch(ai_output) # 0 /\ HP(game_state) < MaxHP(game_state)

\* game_state["Memory"]["Fact"] as the code reads it
MemFacts(gs) == DGetOr(DGetOr(gs, "Memory", D(<<>>)), "Fact", L(<<>>))
FactsExtend(a, b) == IsList(a) /\ IsList(b) /\ IsPrefix(a.v, b.v)

\* C17: the list of memory facts before an operation is a prefix of the list
\* after it, for the steps of a turn and for a save followed by a load of the
\* session file (also when the file holds exactly one fact).
MemoryAppendOnly ==
    [][/\ (game_state # PyNone /\ game_state' # PyNone)
            => FactsExtend(MemFacts(game_state), MemFacts(game_state'))
       /\ (game_state' # PyNone /\ last'.op \in {"save", "persist", "death"})
            => FactsExtend(MemFacts(game_state'),
                           MemFacts(LoadGameState(disk'[save_path'])))]_vars

\* the text of an element as a parser reads it back
TextOf(e) == IF e.text = <<>> THEN "" ELSE e.text[1]

\* C18: append_to_transcript goes on whatever the transcript file holds: a
\* missing or corrupted file is replaced by a document with only the new
\* Turn, and a readable one keeps its Turn elements in order and gains
\* exactly one Turn, which carries the command and the narration.
TranscriptRecovered ==
    last.op = "transcript" =>
       LET had == TranscriptFile \in DOMAIN last.before
           usable == had /\ last.before[TranscriptFile] # Corrupt
           old == IF usable THEN last.before[TranscriptFile].children ELSE <<>>
           new == disk[TranscriptFile]
           turn == new.children[Len(new.children)]
       IN /\ pc = "Directives"
          /\ new # Corrupt /\ new.tag = "Transcript"
          /\ Len(new.children) = Len(old) + 1
          /\ IsPrefix(old, new.children)
          /\ turn.tag = "Turn" /\ Len(turn.children) = 2
          /\ turn.children[1].tag = "Player" /\ TextOf(turn.children[1]) = cmd
          /\ turn.children[2].tag = "AI" /\ TextOf(turn.children[2]) = ai_output
          /\ \A f \in DOMAIN last.before \ {TranscriptFile} :
                f \in DOMAIN disk /\ disk[f] = last.before[f]

\* a turn has been appended where the transcript file was corrupted
CorruptTranscriptReplaced ==
    /\ last.op = "transcript"
    /\ TranscriptFile \in DOMAIN last.before /\ last.before[TranscriptFile] = Corrupt
    /\ Len(disk[TranscriptFile].children) = 1

\* C19: a load of a session file that cannot be parsed yields None without
\* raising, and the loop then runs on a new session: a fresh identifier, no
\* turn played, no memory facts, and nothing of the damaged file.
LoadFailureStartsNew ==
    (last.op = "load" /\ disk[GetLatestSaveFile(DOMAIN disk)] = Corrupt)
       => /\ loaded = PyNone
          /\ pc = "AwaitingInput"
          /\ game_state = InitializeNewGame(DOMAIN disk)
          /\ save_path \notin DOMAIN disk
          /\ TurnsPlayed(game_state) = I(0)
          /\ MemFacts(game_state) = L(<<>>)

\* a damaged latest session file has been loaded
DamagedSessionLoaded ==
    /\ last.op = "load" /\ disk[GetLatestSaveFile(DOMAIN disk)] = Corrupt
    /\ pc = "AwaitingInput"

\* C20: a save of the session that fails does not end the loop: the session
\* in memory is as it was and the loop goes on to the next prompt.
SaveFailureTolerated ==
    [][last'.op \in {"SaveFailed", "ContextFailed"}
          => /\ pc' \in {"NarrationRequested", "Persisted", "AwaitingInput"}
             /\ (cmd' = "save" => game_state' = game_state)]_vars

SessionId(gs) == DGet(gs, "id")
Written(d, e) == {f \in DOMAIN e : f \notin DOMAIN d \/ e[f] # d[f]}

\* C21: once the loop runs on a session, created or loaded, no step changes
\* its id; the save path stays the file named after the id, and a save
\* writes the session to that file and to no other session file.
IdentifierImmutable ==
    [][(game_state # PyNone /\ game_state' # PyNone)
          => /\ SessionId(game_state') = SessionId(game_state)
             /\ save_path' = save_path
             /\ save_path = SavePathOf(game_state)
             /\ Written(disk, disk') \subseteq {save_path, TranscriptFile, AiConfigFile}
             /\ last'.op \in {"save", "persist", "death"}
                   => /\ save_path \in DOMAIN disk'
                      /\ disk'[save_path] = SaveDoc(game_state')]_vars

\* a session that has levelled up is at the prompt with its file on disk
LevelledSessionSaved ==
    /\ pc = "AwaitingInput" /\ IsInt(DGet(game_state, "playerLevel"))
    /\ Level(game_state) = 2
    /\ save_path \in DOMAIN disk /\ disk[save_path] = SaveDoc(game_state)

\* C22: the file name, and with it the id, given to a new game is the name of
\* no session file already in the save directory, so the save of the new
\* session leaves every file that was there as it was.
NewIdUnique ==
    [][last'.op = "alloc"
          => /\ last'.name \notin DOMAIN disk
             /\ RemoveExt(last'.name) \notin {RemoveExt(f) : f \in GlobSessions(DOMAIN disk)}
             /\ DOMAIN disk' = DOMAIN disk \cup {last'.name}
             /\ \A f \in DOMAIN disk : disk'[f] = disk[f]]_vars

\* the thousandth session has been allocated next to 999 others
AllocatedThousandth ==
    /\ last.op = "alloc"
    /\ Cardinality(GlobSessions(last.dir)) >= 999
    /\ last.name = SessionFile(1000)

\* positions of the children of a node that carry a tag, and the tags in
\* order of first occurrence
Occurrences(kids, t) == SelectSeq([i \in DOMAIN kids |-> i], LAMBDA i : kids[i].tag = t)
RECURSIVE FirstSeen(_)
FirstSeen(kids) ==
    IF kids = <<>> THEN <<>>
    ELSE LET before == FirstSeen(SubSeq(kids, 1, Len(kids) - 1))
             t == kids[Len(kids)].tag
         IN IF \E i \in DOMAIN before : before[i] = t THEN before ELSE Append(before, t)

\* C23: a child tag that occurs once under a node is decoded to the bare
\* value of that child, a tag that occurs n >= 2 times to the list of the n
\* values in document order, and the child tags are keys of the record in
\* order of first occurrence.
DecodeAsymmetry ==
    pc = "Parsed" =>
       LET kids == last.arg.children
           tags == FirstSeen(kids)
           keys == [i \in DOMAIN loaded.v |-> loaded.v[i][1]]
       IN /\ IsDict(loaded)
          /\ \A j \in DOMAIN tags :
                LET occ == Occurrences(kids, tags[j])
                    vals == [i \in DOMAIN occ |-> S(TextOf(kids[occ[i]]))]
                IN /\ DHas(loaded, tags[j])
                   /\ DGet(loaded, tags[j]) = IF Len(occ) = 1 THEN vals[1] ELSE L(vals)
          /\ SelectSeq(keys, LAMBDA k : \E j \in DOMAIN tags : tags[j] = k) = tags

Stat(gs, name) == DGet(DGet(gs, "playerStats"), name).v
StatSet == {StatNames[i] : i \in DOMAIN StatNames}

\* C24: one call of check_level_up on a session whose XP reaches 100 x level
\* adds 1 to the level, takes 100 x (the level before) from the XP, adds 1 to
\* exactly one ability stat, adds 5 to the maximum hit points and sets the
\* hit points to the new maximum; below the threshold the session is unchanged.
LevelUpEffect ==
    last.op = "check" =>
       LET b == last.before
           a == game_state
       IN IF XP(b) >= 100 * Level(b)
          THEN /\ Level(a) = Level(b) + 1
               /\ XP(a) = XP(b) - 100 * Level(b)
               /\ \E up \in StatSet :
                     /\ Stat(a, up) = Stat(b, up) + 1
                     /\ \A other \in StatSet \ {up} : Stat(a, other) = Stat(b, other)
               /\ MaxHP(a) = MaxHP(b) + 5
               /\ HP(a) = MaxHP(a)
               /\ Inventory(a) = Inventory(b)
          ELSE a = b

\* one call has taken a session with 350 XP from level 1 to level 2
LevelGainedWithXpLeft ==
    /\ last.op = "check"
    /\ XP(last.before) = 350 /\ Level(last.before) = 1
    /\ Level(game_state) = 2 /\ XP(game_state) = 250

-----------------------------------------------------------------------------
(* The turn of src/game.py: the narration is requested, a skill that it    *)
(* names is checked and the narration requested again with the total, the  *)
(* keywords and the damage are applied and the narration is stored.        *)

\* the letters that a mark begins with
MarkLetters(s) == IF s = "Hand." THEN "Hand" ELSE ""

\* str.lower() on a skill name
LowerName(s) == IF s \in {"None", "NONE"} THEN "none" ELSE s

\* the group ([A-Za-z ]+) read from position i on, after strip(): the words
\* up to the first character that is neither a letter nor a blank
RECURSIVE LettersFrom(_, _)
LettersFrom(w, i) ==
    IF i > Len(w) THEN ""
    ELSE IF w[i].k = "word"
         THEN LET rest == LettersFrom(w, i + 1)
              IN IF rest = "" THEN w[i].s ELSE w[i].s \o " " \o rest
         ELSE IF w[i].k = "mark" THEN MarkLetters(w[i].s) ELSE ""

\* extract_skill_from_ai_output: re.search(r"SKILL:\s*([A-Za-z ]+)", ai_output),
\* the group read after the line breaks that follow the keyword and stripped; "" when there is no match or the group is blank
extract_skill_from_ai_output(text) ==
    LET w == Words(text)
        hits == {i \in 1..(Len(w) - 1) :
                    /\ w[i].k = "mark" /\ w[i].s = "SKILL:"
                    /\ w[i + 1].k # "eq"
                    /\ (w[i + 1].k = "nl" => LettersFrom(w, SkipBreaks(w, i + 1)) # "")}
    IN IF hits = {} THEN ""
       ELSE LettersFrom(w, SkipBreaks(w, 1 + CHOOSE i \in hits : \A j \in hits : i <= j))

skill_to_stat ==
    D(<< <<"Acrobatics", S("Dexterity")>>, <<"Animal Handling", S("Wisdom")>>,
         <<"Arcana", S("Intelligence")>>, <<"Athletics", S("Strength")>>,
         <<"Deception", S("Charisma")>>, <<"History", S("Intelligence")>>,
         <<"Insight", S("Wisdom")>>, <<"Intimidation", S("Charisma")>>,
         <<"Investigation", S("Intelligence")>>, <<"Medicine", S("Wisdom")>>,
         <<"Nature", S("Intelligence")>>, <<"Perception", S("Wisdom")>>,
         <<"Performance", S("Charisma")>>, <<"Persuasion", S("Charisma")>>,
         <<"Religion", S("Intelligence")>>, <<"Sleight of Hand", S("Dexterity")>>,
         <<"Stealth", S("Dexterity")>>, <<"Survival", S("Wisdom")>> >>)

\* (stat_score - 10) // 2
StatMod(stat_score) == (stat_score - 10) \div 2

\* the session with the skill added at modifier 0 when it is not there
WithSkill(gs, skill_name) ==
    LET skills == DGet(gs, "playerSkills")
    IN IF DHas(skills, skill_name) THEN gs
       ELSE DPut(gs, "playerSkills", DPut(skills, skill_name, I(0)))

\* if skill_name and skill_name.lower() != "none"
SkillNamed(skill_name) == skill_name # "" /\ LowerName(skill_name) # "none"

\* the skill check with the ability modifier left out
SkillCheckNoAbility(gs, skill_name, roll) ==
    LET g1 == WithSkill(gs, skill_name)
        skill_mod == DGetOr(DGet(g1, "playerSkills"), skill_name, I(0)).v
    IN IF SkillNamed(skill_name)
       THEN [checked |-> TRUE, gs |-> g1, total |-> roll + skill_mod]
       ELSE [checked |-> FALSE, gs |-> gs, total |-> roll]

\* the skill check that follows the first narration: [checked, gs, total]
SkillCheck(gs, skill_name, roll) ==
    LET g1 == WithSkill(gs, skill_name)
        skill_mod == DGetOr(DGet(g1, "playerSkills"), skill_name, I(0)).v
        stats == DGet(g1, "playerStats")
        stat_name == DGetOr(skill_to_stat, skill_name, PyNone)
        stat_mod == IF stat_name # PyNone /\ DHas(stats, stat_name.v)
                    THEN StatMod(DGet(stats, stat_name.v).v)
                    ELSE 0
    IN IF SkillNamed(skill_name)
       THEN [checked |-> TRUE, gs |-> g1, total |-> roll + skill_mod + stat_mod]
       ELSE [checked |-> FALSE, gs |-> gs, total |-> roll]

\* the second skill check, on the narration that is about to be stored
SecondSkillCheck(gs, skill_name, roll) ==
    LET g1 == WithSkill(gs, skill_name)
        skill_mod == DGetOr(DGet(g1, "playerSkills"), skill_name, I(0)).v
    IN IF SkillNamed(skill_name)
       THEN [checked |-> TRUE, gs |-> g1, total |-> roll + skill_mod]
       ELSE [checked |-> FALSE, gs |-> gs, total |-> roll]

\* re.findall(r"\b([\w\s'-]+)\s*\[<tag>\]", ai_output), stripped: the tag is
\* matched as it is written
RECURSIVE LegacyTaggedFrom(_, _, _)
LegacyTaggedFrom(w, tag, i) ==
    IF i > Len(w) THEN <<>>
    ELSE IF w[i].k = "tag" /\ w[i].s = tag /\ i > 1 /\ w[i - 1].k \notin {"mark", "tag"}
         THEN <<RunBefore(w, i - 1)>> \o LegacyTaggedFrom(w, tag, i + 1)
         ELSE LegacyTaggedFrom(w, tag, i + 1)

\* extract_keywords_from_ai_output of game.py
LegacyExtractKeywords(text) ==
    << <<"KeyNPCs", LegacyTaggedFrom(Words(text), "NPC", 1)>>,
       <<"KeyLocations", LegacyTaggedFrom(Words(text), "LOCATION", 1)>>,
       <<"KeyItems", LegacyTaggedFrom(Words(text), "ITEM", 1)>> >>

legacy_revival_items ==
    <<"Blessing of Resurrection", "Scroll of True Revival", "Phoenix Feather">>

\* damage = int(damage_match.group(1)) if damage_match else 0
LegacyDamage(text) == IF DamageMatch(text) = 0 THEN 0 ELSE DamageAmount(text)

\* the damage block of game.py: [dead, gs]
LegacyDamageStep(gs, damage) ==
    IF damage <= 0 THEN [dead |-> FALSE, gs |-> gs]
    ELSE LET left == DGetOr(gs, "playerHitPoints", I(0)).v - damage
             g1 == DPut(gs, "playerHitPoints", I(IF left < 0 THEN 0 ELSE left))
             inv == DGetOr(gs, "playerInventory", L(<<>>))
             found == {i \in DOMAIN legacy_revival_items :
                          \E j \in DOMAIN inv.v : inv.v[j] = S(legacy_revival_items[i])}
         IN IF left > 0 THEN [dead |-> FALSE, gs |-> g1]
            ELSE IF found = {} THEN [dead |-> TRUE, gs |-> g1]
            ELSE LET item == S(legacy_revival_items[CHOOSE i \in found : \A j \in found : i <= j])
                     g2 == DPut(g1, "playerInventory", L(ListRemove(inv.v, item)))
                     half == DGetOr(gs, "playerMaxHitPoints", I(10)).v \div 2
                 IN [dead |-> FALSE, gs |-> DPut(g2, "playerHitPoints", I(half))]

\* the session of a new game of game.py, with the skills the character
\* builder returned
NewLegacyGame(skills) ==
    D(<< <<"id", S(Join(RemoveExt(GetNextSessionFilename({}))))>>,
         <<"date", S(Today)>>,
         <<"gamemaster", S("AI Storyteller")>>,
         <<"campaignName", S("The Unwritten Tale")>>,
         <<"inGameDate", S("1492-06-15")>>,
         <<"currentLocation", S(DefaultLocation)>>,
         <<"lastRecap", S("Adventurer the Human Explorer arrives at The Forgotten Inn.")>>,
         <<"playerName", S("Adventurer")>>,
         <<"playerRace", S("Human")>>,
         <<"playerClass", S("Explorer")>>,
         <<"playerGender", S("not specified")>>,
         <<"playerBackground", S("Traveler from distant lands")>>,
         <<"Memory", D(<< <<"Fact", L(<<>>)>> >>)>>,
         <<"Log", D(<< <<"Entry", L(<<>>)>> >>)>>,
         <<"PlayerCharacters",
           D(<< <<"Character",
                  L(<< D(<< <<"name", S("Adventurer")>>, <<"Race", S("Human")>>,
                            <<"Class", S("Explorer")>>,
                            <<"Biography", S("Traveler from distant lands")>> >>) >>)>> >>)>>,
         <<"KeyNPCs", L(<<>>)>>,
         <<"KeyLocations", L(<<>>)>>,
         <<"KeyItems", L(<<>>)>>,
         <<"playerInventory", L(<<>>)>>,
         <<"playerHitPoints", I(10)>>,
         <<"playerArmorClass", I(10)>>,
         <<"playerMaxHitPoints", I(10)>>,
         <<"playerStats", D([i \in DOMAIN StatNames |-> <<StatNames[i], I(10)>>])>>,
         <<"playerSkills", skills>>,
         <<"playerGold", I(0)>>,
         <<"playerXP", I(0)>>,
         <<"playerLevel", I(1)>> >>)

\* the skills of a new character: none, or a map of modifiers between -1 and 5
LegacySkills ==
    { D(<<>>),
      D(<< <<"Stealth", I(2)>>, <<"Persuasion", I(1)>> >>),
      D(<< <<"Lockpicking", I(-1)>>, <<"Sleight of Hand", I(5)>> >>) }

\* the session after earlier turns: Dexterity raised by level-ups, XP earned
\* the session after earlier turns: XP earned at 20 a turn, the level that
\* check_level_up left, Dexterity raised at some of the level-ups
LegacySession(skills, xp, dexterity) ==
    LET g0 == NewLegacyGame(skills)
        g1 == DPut(g0, "playerStats", DPut(DGet(g0, "playerStats"), "Dexterity", I(dexterity)))
    IN DPut(DPut(g1, "playerLevel", I(xp \div 100 + 1)), "playerXP", I(xp))

LegacyProgress == {<<0, 10>>, <<80, 10>>, <<280, 12>>, <<380, 11>>, <<380, 13>>}
LegacyRolls == {1, 10, 20}
LegacyTexts == {NarrSneak, NarrPick, NarrPalm, NarrQuiet, NarrLower, NarrUnseen, NarrSlain}
LegacyAnswers == {NarrUnseen, NarrSneak, NarrPick}
LegacyChoices == {0, 2}

LegacyInit ==
    /\ pc = "LegacyPrompt"
    /\ \E skills \in LegacySkills, p \in LegacyProgress :
          game_state = LegacySession(skills, p[1], p[2])
    /\ save_path = SavePathOf(game_state)
    /\ disk = [f \in {} |-> Corrupt]
    /\ cmd = ""
    /\ roll_result = 0
    /\ ai_output = ""
    /\ loaded = PyNone
    /\ last = NoOp
    /\ turns = 0
    /\ history = <<>>

Request(total, answer) == [total |-> total, answer |-> answer]

\* the roll and the first narration request
LegacyNarrate ==
    /\ pc = "LegacyPrompt"
    /\ turns = 0
    /\ \E roll \in LegacyRolls, text \in LegacyTexts :
          LET cfg == ParseAndApplyAiConfigCommand(disk, text)
          IN /\ cmd' = "sneak past the guard"
             /\ roll_result' = roll
             /\ ai_output' = text
             /\ history' = <<Request(roll, text)>>
             /\ disk' = cfg.disk
             /\ pc' = IF cfg.ok THEN "LegacyNarrated" ELSE "Crashed"
    /\ turns' = 1
    /\ last' = Op("roll", 0, 0)
    /\ UNCHANGED <<game_state, save_path, loaded>>

\* the skill check on the first narration and the request that carries its total
LegacyFirstCheck ==
    /\ pc = "LegacyNarrated"
    /\ \E skill_name \in {extract_skill_from_ai_output(ai_output)} :
       \E r \in {SkillCheck(game_state, skill_name, roll_result)} :
          /\ game_state' = r.gs
          /\ last' = [op |-> "skill", before |-> game_state, text |-> ai_output,
                      checked |-> r.checked, total |-> r.total]
          /\ IF r.checked
             THEN \E answer \in LegacyAnswers :
                     /\ ai_output' = answer
                     /\ history' = Append(history, Request(r.total, answer))
             ELSE UNCHANGED <<ai_output, history>>
    /\ pc' = "LegacyChecked"
    /\ UNCHANGED <<save_path, disk, cmd, roll_result, loaded, turns>>

\* keywords and damage of the narration
LegacyDirectives ==
    /\ pc = "LegacyChecked"
    /\ \E damage \in {LegacyDamage(ai_output)} :
       \E g1 \in {MergeKeywords(game_state, LegacyExtractKeywords(ai_output))} :
       \E r \in {LegacyDamageStep(g1, damage)} :
          /\ game_state' = r.gs
          /\ IF r.dead
             THEN /\ disk' = WriteFile(disk, save_path, SaveDoc(game_state'))
                  /\ pc' = "SessionEnded"
             ELSE /\ disk' = disk
                  /\ pc' = "LegacyApplied"
    /\ last' = Op("directives", 0, 0)
    /\ UNCHANGED <<save_path, cmd, roll_result, ai_output, loaded, turns, history>>

\* the second skill check and its request
LegacySecondCheck ==
    /\ pc = "LegacyApplied"
    /\ \E skill_name \in {extract_skill_from_ai_output(ai_output)} :
       \E r \in {SecondSkillCheck(game_state, skill_name, roll_result)} :
          /\ game_state' = r.gs
          /\ last' = [op |-> "skill2", before |-> game_state, text |-> ai_output,
                      checked |-> r.checked, total |-> r.total]
          /\ IF r.checked
             THEN \E answer \in LegacyAnswers :
                     /\ ai_output' = answer
                     /\ history' = Append(history, Request(r.total, answer))
             ELSE UNCHANGED <<ai_output, history>>
    /\ pc' = "LegacyRechecked"
    /\ UNCHANGED <<save_path, disk, cmd, roll_result, loaded, turns>>

\* memory fact, transcript, recap, Turn log entry and save
LegacyStore ==
    /\ pc = "LegacyRechecked"
    /\ LET g1 == UpdateAiMemory(game_state, cmd, ai_output)
           g2 == IF ai_output # "" THEN DPut(g1, "lastRecap", S(FirstLine(ai_output))) ELSE g1
           g3 == AppendLog(g2, "Turn", LogContent(cmd, roll_result, ai_output))
       IN /\ game_state' = g3
          /\ disk' = WriteFile(AppendToTranscript(disk, cmd, ai_output), save_path,
                               SaveDoc(game_state'))
    /\ pc' = "LegacyStored"
    /\ last' = Op("store", 0, 0)
    /\ UNCHANGED <<save_path, cmd, roll_result, ai_output, loaded, turns, history>>

\* the XP of the turn and the entry into check_level_up
LegacyReward ==
    /\ pc = "LegacyStored"
    /\ game_state' = DPut(game_state, "playerXP", I(DGetOr(game_state, "playerXP", I(0)).v + XpPerTurn))
    /\ last' = [op |-> "levelling", xp |-> DGet(game_state', "playerXP").v,
                level |-> DGetOr(game_state', "playerLevel", I(1)).v,
                threshold |-> 100 * DGetOr(game_state', "playerLevel", I(1)).v]
    /\ pc' = "LegacyLevelling"
    /\ UNCHANGED <<save_path, disk, cmd, roll_result, ai_output, loaded, turns, history>>

\* one round of the loop of check_level_up
LegacyLevelUpRound ==
    /\ pc = "LegacyLevelling"
    /\ last.xp >= last.threshold
    /\ \E choice \in LegacyChoices :
          LET g1 == DPut(game_state, "playerLevel", I(last.level + 1))
              stats == DGet(g1, "playerStats")
              names == [i \in DOMAIN stats.v |-> stats.v[i][1]]
              g2 == IF choice \in DOMAIN names
                    THEN DPut(g1, "playerStats",
                              DPut(stats, names[choice], I(DGet(stats, names[choice]).v + 1)))
                    ELSE g1
          IN game_state' = DPut(g2, "playerHitPoints", DGetOr(g2, "playerMaxHitPoints", I(10)))
    /\ last' = [last EXCEPT !.level = DGet(game_state', "playerLevel").v,
                            !.threshold = 100 * DGet(game_state', "playerLevel").v]
    /\ UNCHANGED <<pc, save_path, disk, cmd, roll_result, ai_output, loaded, turns, history>>

\* the loop of check_level_up is left and the session is saved
LegacyLevelUpDone ==
    /\ pc = "LegacyLevelling"
    /\ last.xp < last.threshold
    /\ disk' = WriteFile(disk, save_path, SaveDoc(game_state))
    /\ pc' = "LegacyPrompt"
    /\ last' = Op("persist", 0, 0)
    /\ UNCHANGED <<game_state, save_path, cmd, roll_result, ai_output, loaded, turns, history>>

LegacyNext ==
    \/ LegacyNarrate \/ LegacyFirstCheck \/ LegacyDirectives \/ LegacySecondCheck
    \/ LegacyStore \/ LegacyReward \/ LegacyLevelUpRound \/ LegacyLevelUpDone

SpecLegacy == LegacyInit /\ [][LegacyNext]_vars

\* the ability score that the table gives for a skill, 10 when it gives none
AbilityScore(gs, skill) ==
    IF DHas(skill_to_stat, skill)
    THEN DGet(DGet(gs, "playerStats"), DGet(skill_to_stat, skill).v).v
    ELSE 10

Floor2(n) == CHOOSE m \in -10..10 : 2 * m <= n /\ n < 2 * m + 2

StoredFact(gs) == LET f == DGet(DGet(gs, "Memory"), "Fact").v IN DGet(f[Len(f)], "ai_response").v
StoredEntry(gs) == LET e == DGet(DGet(gs, "Log"), "Entry").v IN DGet(e[Len(e)], "Content").v

\* C26: in a turn whose first narration names a skill, the narrator is asked
\* again with the total roll + skill modifier + ability modifier, the
\* narration stored in the memory fact, the Turn log entry and the recap is
\* the answer to that request, and no further request replaces it.
SkillRenarrationStored ==
    (pc = "LegacyStored" /\ SkillNamed(extract_skill_from_ai_output(history[1].answer)))
    => LET s == extract_skill_from_ai_output(history[1].answer)
           total == roll_result + DGet(DGet(game_state, "playerSkills"), s).v
                       + Floor2(AbilityScore(game_state, s) - 10)
       IN /\ Len(history) = 2
          /\ history[2].total = total
          /\ StoredFact(game_state) = history[2].answer
          /\ StoredEntry(game_state) = LogContent(cmd, roll_result, history[2].answer)
          /\ DGet(game_state, "lastRecap").v = FirstLine(history[2].answer)

-----------------------------------------------------------------------------
(* World events (specification SpecLong) *)

\* the log entries of a session whose log is a list, <<>> otherwise
LogList(gs) ==
    IF IsDict(gs) /\ DHas(gs, "Log") /\ IsDict(DGet(gs, "Log")) /\ DHas(DGet(gs, "Log"), "Entry")
          /\ IsList(DGet(DGet(gs, "Log"), "Entry"))
    THEN Entries(gs) ELSE <<>>
EntryTypes(gs) == [i \in DOMAIN LogList(gs) |-> DGet(LogList(gs)[i], "type").v]
WorldEventsLogged(gs) == {i \in DOMAIN LogList(gs) : EntryTypes(gs)[i] = "WorldEvent"}

\* the narration step of a turn: get_ai_event is called exactly when the
\* incremented turn counter is a positive multiple of 15; the log gains one
\* WorldEvent entry when an event is produced and nothing otherwise, and the
\* roll is the one of the turn
WorldEventStep ==
    (pc = "RollGenerated" /\ pc' = "NarrationRequested")
    => LET tc == DGet(game_state, "turn_counter").v
           before == Entries(game_state)
           after == Entries(game_state')
       IN /\ last'.arg = 1 <=> (tc > 0 /\ tc % 15 = 0)
          /\ last'.arg \in {0, 1}
          /\ roll_result' = roll_result
          /\ \/ after = before
             \/ /\ last'.arg = 1
                /\ Len(after) = Len(before) + 1
                /\ SubSeq(after, 1, Len(before)) = before
                /\ DGet(after[Len(after)], "type").v = "WorldEvent"

\* a WorldEvent entry is followed by the Turn entry of its turn, once the
\* turn has been stored
WorldEventBeforeTurn ==
    \A i \in WorldEventsLogged(game_state) :
       IF i < Len(LogList(game_state))
       THEN EntryTypes(game_state)[i + 1] = "Turn"
       ELSE pc \in {"NarrationRequested", "DirectivesApplied", "SessionEnded", "Crashed"}

\* C27: a world event is requested in a turn exactly when the incremented
\* turn counter is a positive multiple of 15; an event that is produced adds
\* exactly one WorldEvent log entry, in front of the Turn entry of that
\* turn; a request that fails or yields nothing adds no entry, and the turn
\* goes on with the same roll.
WorldEventEveryFifteen == [][WorldEventStep]_vars /\ []WorldEventBeforeTurn

WorldEventLogged ==
    /\ pc = "Persisted"
    /\ DGet(game_state, "turn_counter") = I(15)
    /\ Len(Entries(game_state)) = 16
    /\ WorldEventsLogged(game_state) = {15}
    /\ EntryTypes(game_state)[16] = "Turn"

-----------------------------------------------------------------------------
(* The roll context of get_ai_narrative on its own: the context is built   *)
(* for the rolls of successive turns.                                      *)

D20 == 1..20
MaxPrompts == 2

\* the conditions of the if / elif chain, in order
BandTest(i, roll) ==
    CASE i = 1 -> roll = 1
      [] i = 2 -> roll <= 5
      [] i = 3 -> roll <= 10
      [] i = 4 -> roll <= 15
      [] i = 5 -> roll < 20
      [] i = 6 -> roll = 20

BandText ==
    << "This is a CRITICAL FAILURE. The action should fail spectacularly, with negative consequences.",
       "This is a significant failure. The action fails, and there may be a minor complication.",
       "This is a failure. The action does not succeed, but doesn't necessarily make things worse.",
       "This is a modest success. The action succeeds, but not perfectly or completely.",
       "This is a clear success. The action works as intended.",
       "This is a CRITICAL SUCCESS. The action succeeds spectacularly, with an added bonus or benefit." >>

RollHeader(roll) == "The player rolled a d20 and got: " \o IntToStr(roll) \o ".\n"

\* the chain written with if in place of elif: every band whose test holds
RollContextIfs(roll) ==
    <<RollHeader(roll)>> \o SelectSeq(BandText, LAMBDA t : \E i \in 1..6 : BandText[i] = t /\ BandTest(i, roll))

\* roll_context: the header and what the chain adds to it
RollContext(roll) ==
    LET held == {i \in DOMAIN BandText : BandTest(i, roll)}
    IN IF held = {} THEN <<RollHeader(roll)>>
       ELSE <<RollHeader(roll), BandText[CHOOSE i \in held : \A j \in held : i <= j]>>

PromptInit ==
    /\ pc = "Prompt"
    /\ game_state = InitializeNewGame({})
    /\ save_path = SavePathOf(game_state)
    /\ disk = [f \in {} |-> Corrupt]
    /\ cmd = ""
    /\ roll_result = 0
    /\ ai_output = ""
    /\ loaded = PyNone
    /\ last = NoOp
    /\ turns = 0
    /\ history = <<>>

BuildRollContext ==
    /\ pc = "Prompt"
    /\ Len(history) < MaxPrompts
    /\ \E roll \in D20 :
          /\ roll_result' = roll
          /\ last' = [op |-> "roll_context", context |-> RollContext(roll)]
          /\ history' = Append(history, roll)
    /\ UNCHANGED <<pc, game_state, save_path, disk, cmd, ai_output, loaded, turns>>

PromptNext == BuildRollContext

SpecPrompt == PromptInit /\ [][PromptNext]_vars

\* the band of the table
TableBand(roll) ==
    CASE roll = 1 -> 1
      [] roll \in 2..5 -> 2
      [] roll \in 6..10 -> 3
      [] roll \in 11..15 -> 4
      [] roll \in 16..19 -> 5
      [] roll = 20 -> 6

\* C28: for every roll in 1..20 the narration context carries exactly one
\* band, the one of the table: 1 critical failure, 2-5 significant failure,
\* 6-10 failure, 11-15 modest success, 16-19 clear success, 20 critical
\* success.
RollBandsPartition ==
    last.op = "roll_context"
    => /\ roll_result \in 1..20
       /\ Len(last.context) = 2
       /\ last.context[2] = BandText[TableBand(roll_result)]

ClearSuccessAtSixteen ==
    /\ last.op = "roll_context"
    /\ history = <<5, 16>>
    /\ last.context[2] = "This is a clear success. The action works as intended."

-----------------------------------------------------------------------------
(* Order of the extracted names (specification SpecDirectives) *)

\* the names in front of the tags of a set, in order of appearance
RECURSIVE TaggedAmongFrom(_, _, _)
TaggedAmongFrom(w, tags, i) ==
    IF i > Len(w) THEN <<>>
    ELSE IF w[i].k = "tag" /\ Upper(w[i].s) \in tags /\ i > 1 /\ w[i - 1].k \notin {"mark", "tag"}
         THEN <<RunBefore(w, i - 1)>> \o TaggedAmongFrom(w, tags, i + 1)
         ELSE TaggedAmongFrom(w, tags, i + 1)
InOrderOfAppearance(text, tags) == TaggedAmongFrom(Words(text), tags, 1)

IsSubsequence(a, b) ==
    \E f \in [DOMAIN a -> DOMAIN b] :
       /\ \A i \in DOMAIN a : b[f[i]] = a[i]
       /\ \A i, j \in DOMAIN a : i < j => f[i] < f[j]

\* C29: extract_keywords_from_ai_output returns, for each category, all the
\* tagged names in order of appearance in the narration; a [MERCHANT] name
\* is in the NPC and in the LOCATION result, and a merchant that appears in
\* front of an [NPC] name precedes it in the NPC result.
EntityExtractionOrder ==
    (last.op = "merge" /\ last.arg # "")
    => LET k == ExtractKeywords(last.arg)
       IN /\ k[1][1] = "KeyNPCs" /\ k[2][1] = "KeyLocations" /\ k[3][1] = "KeyItems"
          /\ k[1][2] = InOrderOfAppearance(last.arg, {"NPC", "MERCHANT"})
          /\ k[2][2] = InOrderOfAppearance(last.arg, {"LOCATION", "MERCHANT"})
          /\ k[3][2] = InOrderOfAppearance(last.arg, {"ITEM"})
          /\ IsSubsequence(InOrderOfAppearance(last.arg, {"MERCHANT"}), k[1][2])
          /\ IsSubsequence(InOrderOfAppearance(last.arg, {"MERCHANT"}), k[2][2])

-----------------------------------------------------------------------------
(* Order and progress of a turn (specification SpecLive) *)

\* the positions of a turn follow one another
TurnStep ==
    /\ StartTurn => pc' = "RollGenerated"
    /\ pc = "RollGenerated" => pc' = "NarrationRequested"
    /\ pc = "NarrationRequested" => pc' \in {"DirectivesApplied", "SessionEnded"}
    /\ pc = "DirectivesApplied" => pc' = "Persisted"
    /\ pc = "Persisted" => pc' = "AwaitingInput"

\* C30: every turn started at the prompt with a command that is not a meta
\* command goes through RollGenerated, NarrationRequested, DirectivesApplied
\* and Persisted in that order and, once the narrator has answered, comes back
\* to the prompt or ends the session; the level-up at the end of the turn
\* terminates.
TurnProgress ==
    /\ [][TurnStep]_vars
    /\ (pc = "NarrationRequested") ~> (pc \in {"AwaitingInput", "SessionEnded"})

-----------------------------------------------------------------------------
(* The recap (specification SpecRecap): two turns of a new game, with      *)
(* narrations on one line, on several lines, with an empty first line, and *)
(* the empty narration.                                                    *)

MaxRecapTurns == 2
RecapNarrations == {NarrPlain, NarrChoices, NarrLead, NarrEmpty}
RecapRolls == {10}

RecapStartTurn == StartTurnWith(MaxRecapTurns, RecapRolls)
RecapNarrate == NarrateOf(RecapNarrations)

RecapNext ==
    \/ StartNew \/ Quit \/ SaveCmd \/ MetaCmd \/ RecapStartTurn
    \/ RecapNarrate \/ ApplyDirectives \/ FinishTurn \/ NextPrompt

SpecRecap == Init /\ [][RecapNext]_vars

\* the lines of a narration, as str.split('\n') returns them
Lines(text) ==
    CASE text = NarrChoices -> <<"The door opens.", "1. Enter", "2. Leave">>
      [] text = NarrLead -> <<"", "A cold wind.">>
      [] OTHER -> <<text>>
RECURSIVE JoinLines(_)
JoinLines(q) == IF Len(q) = 1 THEN q[1] ELSE q[1] \o "\n" \o JoinLines(Tail(q))
Breaks(text) == Cardinality({i \in DOMAIN Words(text) : Words(text)[i].k = "nl"})

Recap(gs) == DGet(gs, "lastRecap").v

\* C31: a turn that completes with a non-empty narration sets lastRecap to
\* the first line of that narration; with an empty narration lastRecap keeps
\* its value.
RecapIsFirstLine ==
    [][(pc = "DirectivesApplied" /\ pc' = "Persisted")
       => /\ JoinLines(Lines(ai_output)) = ai_output
          /\ Len(Lines(ai_output)) = Breaks(ai_output) + 1
          /\ Recap(game_state') = IF ai_output # "" THEN Lines(ai_output)[1]
                                  ELSE Recap(game_state)]_vars

RecapOfChoicesThenEmpty ==
    /\ pc = "Persisted"
    /\ turns = 2
    /\ ai_output = NarrEmpty
    /\ Recap(game_state) = "The door opens."

-----------------------------------------------------------------------------
(* Two processes on one save directory (specification SpecRace).  Each     *)
(* process runs interactive_chat_loop; pc, game_state, save_path, cmd and  *)
(* turns hold one value per process, the save directory is shared.  A turn *)
(* touches the session file once, in the save that ends it, so a turn is   *)
(* one step between the steps of the other process.  history lists the     *)
(* writes of session files, loaded[p] is the length of history when p      *)
(* allocated its identifier.                                               *)

Procs == {1, 2}
MaxRaceTurns == 1
MaxRaceWrites == 3
PlayerNames == {"Ayla", "Borin"}
RaceNarrations == {NarrHit}
RaceRolls == {10}

\* initialize_new_game with a name typed at the first prompt
InitializeNewGameAs(dir, player_name) ==
    LET gs == InitializeNewGame(dir)
        recap == player_name \o " the Human Explorer arrives at The Forgotten Inn."
    IN DPut(DPut(gs, "lastRecap", S(recap)), "playerName", S(player_name))

RaceInit ==
    /\ pc = [p \in Procs |-> "Startup"]
    /\ game_state = [p \in Procs |-> PyNone]
    /\ save_path = [p \in Procs |-> NoFile]
    /\ disk \in LongDisks
    /\ cmd = [p \in Procs |-> ""]
    /\ roll_result = [p \in Procs |-> 0]
    /\ ai_output = [p \in Procs |-> ""]
    /\ loaded = [p \in Procs |-> 0]
    /\ last = NoOp
    /\ turns = [p \in Procs |-> 0]
    /\ history = <<>>

RaceOp(name, p) == [op |-> name, hp |-> 0, arg |-> p]
Write(p, f) == [p |-> p, f |-> f]

\* a new game as it would be if the allocated name were reserved by writing
\* the session file at once
RaceStartNewReserving(p) ==
    /\ pc[p] = "Startup"
    /\ \E player_name \in PlayerNames :
       \E gs \in {InitializeNewGameAs(DOMAIN disk, player_name)} :
          /\ game_state' = [game_state EXCEPT ![p] = gs]
          /\ save_path' = [save_path EXCEPT ![p] = SavePathOf(gs)]
          /\ disk' = WriteFile(disk, SavePathOf(gs), SaveDoc(gs))
    /\ pc' = [pc EXCEPT ![p] = "AwaitingInput"]
    /\ loaded' = [loaded EXCEPT ![p] = Len(history)]
    /\ last' = RaceOp("new", p)
    /\ UNCHANGED <<cmd, roll_result, ai_output, turns, history>>

\* process p answers "new": initialize_new_game reads the directory for the
\* next identifier and writes nothing
RaceStartNew(p) ==
    /\ pc[p] = "Startup"
    /\ \E player_name \in PlayerNames :
       \E gs \in {InitializeNewGameAs(DOMAIN disk, player_name)} :
          /\ game_state' = [game_state EXCEPT ![p] = gs]
          /\ save_path' = [save_path EXCEPT ![p] = SavePathOf(gs)]
    /\ pc' = [pc EXCEPT ![p] = "AwaitingInput"]
    /\ loaded' = [loaded EXCEPT ![p] = Len(history)]
    /\ last' = RaceOp("new", p)
    /\ UNCHANGED <<disk, cmd, roll_result, ai_output, turns, history>>

\* the save command of process p
RaceSave(p) ==
    /\ pc[p] = "AwaitingInput"
    /\ Len(history) < MaxRaceWrites
    /\ cmd' = [cmd EXCEPT ![p] = "save"]
    /\ disk' = WriteFile(disk, save_path[p], SaveDoc(game_state[p]))
    /\ history' = Append(history, Write(p, save_path[p]))
    /\ last' = RaceOp("save", p)
    /\ UNCHANGED <<pc, game_state, save_path, roll_result, ai_output, loaded, turns>>

\* one turn of process p, from the command to the save that ends it (or to
\* the save on death)
RaceTurn(p) ==
    /\ pc[p] = "AwaitingInput"
    /\ turns[p] < MaxRaceTurns
    /\ Len(history) < MaxRaceWrites
    /\ \E c \in Commands, roll \in RaceRolls, text \in RaceNarrations, i \in DOMAIN StatNames :
       \E tc \in {DGetOr(game_state[p], "turn_counter", I(0))} :
       \E g1 \in {UpdateAiMemory(DPut(game_state[p], "turn_counter", I(tc.v + 1)), c, text)} :
       \E cfg \in {ParseAndApplyAiConfigCommand(
                       AppendToTranscript(LoadAiConfig(disk), c, text), text)} :
       \E r \in {DamageStep(MergeKeywords(g1, ExtractKeywords(text)), text)} :
       \E g2 \in {IF r.dead THEN r.gs ELSE CompleteTurn(r.gs, c, roll, text, StatNames[i])} :
          /\ cfg.ok
          /\ cmd' = [cmd EXCEPT ![p] = c]
          /\ roll_result' = [roll_result EXCEPT ![p] = roll]
          /\ ai_output' = [ai_output EXCEPT ![p] = text]
          /\ game_state' = [game_state EXCEPT ![p] = g2]
          /\ disk' = WriteFile(cfg.disk, save_path[p], SaveDoc(g2))
          /\ pc' = [pc EXCEPT ![p] = IF r.dead THEN "SessionEnded" ELSE "AwaitingInput"]
    /\ turns' = [turns EXCEPT ![p] = turns[p] + 1]
    /\ history' = Append(history, Write(p, save_path[p]))
    /\ last' = RaceOp("turn", p)
    /\ UNCHANGED <<save_path, loaded>>

RaceQuit(p) ==
    /\ pc[p] = "AwaitingInput"
    /\ cmd' = [cmd EXCEPT ![p] = "quit"]
    /\ pc' = [pc EXCEPT ![p] = "SessionEnded"]
    /\ last' = RaceOp("quit", p)
    /\ UNCHANGED <<game_state, save_path, disk, roll_result, ai_output, loaded, turns, history>>

RaceNext == \E p \in Procs : RaceStartNew(p) \/ RaceSave(p) \/ RaceTurn(p) \/ RaceQuit(p)

SpecRace == RaceInit /\ [][RaceNext]_vars

Allocated(p) == pc[p] # "Startup"
WritesBefore(n, q) == {i \in 1..n : history[i].p = q}
\* p and q have started a new game, each before the other had saved
BothBeforeSaves(p, q) ==
    /\ Allocated(p) /\ Allocated(q)
    /\ WritesBefore(loaded[p], q) = {} /\ WritesBefore(loaded[q], p) = {}
SameIdentifier ==
    \A p, q \in Procs :
       (p # q /\ BothBeforeSaves(p, q)) => SessionId(game_state[p]) = SessionId(game_state[q])
\* a save writes the session of the saving process, whatever the file held
LastWriterWins ==
    \A p \in Procs :
       history' = Append(history, Write(p, save_path[p]))
       => disk'[save_path[p]] = SaveDoc(game_state'[p])

\* C32: two processes that each start a new game before either has saved
\* are given the same session identifier, and a save replaces the session
\* document in the file whatever process wrote it: the save of one process
\* overwrites the session of the other.
IdentifierAllocationRace == []SameIdentifier /\ [][LastWriterWins]_vars

SessionOverwritten ==
    \E p, q \in Procs :
       /\ p # q /\ BothBeforeSaves(p, q)
       /\ DGet(game_state[p], "playerName") # DGet(game_state[q], "playerName")
       /\ Len(history) = 2
       /\ history[1] = Write(q, save_path[q]) /\ history[2] = Write(p, save_path[q])
       /\ disk[save_path[q]] = SaveDoc(game_state[p])
       /\ \A f \in DOMAIN disk : disk[f] # SaveDoc(game_state[q])

-----------------------------------------------------------------------------
(* Experience over the turns of a new game (specification SpecLong) *)

\* the session in memory was made by initialize_new_game in this run
NewGameAtPrompt == pc = "AwaitingInput" /\ loaded = PyNone

\* C33: at every return to the input prompt of a session started by
\* initialize_new_game and advanced by turns only, the level is at least 1
\* and 0 <= XP < 100 x level.
XpBelowThreshold ==
    NewGameAtPrompt
    => /\ Level(game_state) >= 1
       /\ XP(game_state) >= 0
       /\ XP(game_state) < 100 * Level(game_state)

SecondLevelAtPrompt ==
    /\ NewGameAtPrompt
    /\ last.op = "persist"
    /\ turns = 5
    /\ Level(game_state) = 2
    /\ XP(game_state) = 0

\* the XP consumed by the level-ups up to a level: 100 x l for l = 1 .. level - 1
RECURSIVE Consumed(_)
Consumed(level) == IF level <= 1 THEN 0 ELSE 100 * (level - 1) + Consumed(level - 1)

\* the turns completed by a session: its Turn log entries
CompletedTurns(gs) == Cardinality({i \in DOMAIN LogList(gs) : DGet(LogList(gs)[i], "type") = S("Turn")})

\* C34: after n completed turns of a new game the XP granted are neither lost
\* nor duplicated: 20 x n = XP + the sum of 100 x l over the levels l from 1
\* to level - 1.
XpConserved ==
    (loaded = PyNone /\ pc \in {"AwaitingInput", "Persisted"})
    => 20 * CompletedTurns(game_state)
         = XP(game_state) + Consumed(Level(game_state))

ThirdLevelAfterFifteenTurns ==
    /\ pc = "Persisted"
    /\ loaded = PyNone
    /\ CompletedTurns(game_state) = 15
    /\ Level(game_state) = 3
    /\ XP(game_state) = 0

-----------------------------------------------------------------------------
(* Memory and log (specification Spec) *)

\* the session of this run has just been written by the loop: at the end of
\* a turn, or on death
JustPersisted == loaded = PyNone /\ last.op \in {"persist", "death"}

\* C35: whenever interactive_chat_loop persists the session, at the end of a
\* turn or on death, as many MemoryFacts as Turn log entries have been
\* appended during the session.
MemoryAndLogInStep ==
    JustPersisted => Len(Facts(game_state)) = CompletedTurns(game_state)

-----------------------------------------------------------------------------
(* The effect of a save on the session in memory (specification SpecSave). *)
(* _convert_dict_to_xml_elements pops the text slot from the dict it is    *)
(* given; a dict met in the loop is passed as item.copy(), a shallow copy  *)
(* that shares its values with the item.                                   *)

MaxSaves == 2

RECURSIVE ConvertAfter(_)
RECURSIVE ValAfter(_)
RECURSIVE ItemAfter(_)

\* the loop body as it would be without .copy(): the item itself is converted
ItemAfterNoCopy(item) == ConvertAfter(item)

\* the object `data` after _convert_dict_to_xml_elements(parent, data)
ConvertAfter(data) ==
    IF ~IsDict(data) THEN data
    ELSE LET rest == DDel(data, "#text")
         IN D([i \in DOMAIN rest.v |-> <<rest.v[i][1], ValAfter(rest.v[i][2])>>])

\* a value after the loop went over it: the value itself, or its items
ValAfter(val) ==
    IF IsList(val) THEN L([j \in DOMAIN val.v |-> ItemAfter(val.v[j])]) ELSE ItemAfter(val)

\* an item after the call made for it: a dict is copied, the call pops from
\* the copy, and the item sees what the call did to the values it shares
\* with the copy
ItemAfter(item) ==
    IF IsDict(item)
    THEN LET copy == ConvertAfter(item)
         IN D([i \in DOMAIN item.v |->
                 <<item.v[i][1],
                   IF item.v[i][1] = "#text" THEN item.v[i][2] ELSE DGet(copy, item.v[i][1])>>])
    ELSE ConvertAfter(item)

\* game_state after save_game_state(game_state, filepath): the keys written
\* as root attributes are read only, the others are converted
SaveAfter(gs) ==
    D([i \in DOMAIN gs.v |->
         <<gs.v[i][1],
           IF gs.v[i][1] \in RootAttrKeySet THEN gs.v[i][2] ELSE ValAfter(gs.v[i][2])>>])

\* sessions with records nested in records and lists, with and without a
\* text slot
SaveRecords ==
    LET leaf == {S("a"), D(<< <<"#text", S("a")>> >>)}
        inner == leaf \cup {D(t \o << <<"Fact", x>> >>) :
                               t \in {<<>>, << <<"#text", S("b")>> >>}, x \in leaf}
    IN inner \cup {L(<<x, y>>) : x, y \in inner}
           \cup {D(t \o << <<"Fact", x>> >>) :
                    t \in {<<>>, << <<"#text", S("c")>> >>}, x \in inner}
SaveSessions ==
    {D(<< <<"id", S("SESS-001")>>, <<"Memory", D(<< <<"Fact", x>> >>)>>, <<k, y>> >>) :
        x \in SaveRecords, k \in {"KeyNPCs", "playerInventory"},
        y \in {L(<<>>), D(<< <<"#text", S("a")>>, <<"Fact", D(<< <<"#text", S("b")>> >>)>> >>)}}

SaveInit ==
    /\ pc = "AwaitingInput"
    /\ game_state \in SaveSessions
    /\ save_path = SessionFile(1)
    /\ disk = [f \in {} |-> Corrupt]
    /\ cmd = ""
    /\ roll_result = 0
    /\ ai_output = ""
    /\ loaded = PyNone
    /\ last = NoOp
    /\ turns = 0
    /\ history = <<>>

\* save_game_state(game_state, save_path)
SaveSession ==
    /\ turns < MaxSaves
    /\ game_state' = SaveAfter(game_state)
    /\ disk' = WriteFile(disk, save_path, SaveDoc(game_state))
    /\ last' = [op |-> "save", before |-> game_state]
    /\ turns' = turns + 1
    /\ UNCHANGED <<pc, save_path, cmd, roll_result, ai_output, loaded, history>>

\* get_ai_narrative: save_game_state(game_state, temp_path, silent=True), the
\* file is read into the prompt and unlinked
SaveContext ==
    /\ turns < MaxSaves
    /\ game_state' = SaveAfter(game_state)
    /\ history' = <<SaveDoc(game_state)>>
    /\ last' = [op |-> "context", before |-> game_state]
    /\ turns' = turns + 1
    /\ UNCHANGED <<pc, save_path, disk, cmd, roll_result, ai_output, loaded>>

SaveNext == SaveSession \/ SaveContext

SpecSave == SaveInit /\ [][SaveNext]_vars

\* a record with a text slot somewhere below the top of a value
RECURSIVE HasTextSlot(_)
HasTextSlot(x) ==
    CASE IsDict(x) -> DHas(x, "#text") \/ \E i \in DOMAIN x.v : HasTextSlot(x.v[i][2])
      [] IsList(x) -> \E i \in DOMAIN x.v : HasTextSlot(x.v[i])
      [] OTHER -> FALSE

\* C36: save_game_state, the silent save to the context document included,
\* leaves the session in memory as it was, at every depth, also when its
\* records hold a text slot.
SaveIsReadOnly ==
    last.op \in {"save", "context"} => game_state = last.before

TextSlotsKept ==
    /\ last.op = "context"
    /\ turns = 2
    /\ disk # [f \in {} |-> Corrupt]
    /\ \E x \in {DGet(DGet(game_state, "Memory"), "Fact")} :
          /\ IsDict(x) /\ DHas(x, "#text") /\ DHas(x, "Fact")
          /\ IsDict(DGet(x, "Fact")) /\ DHas(DGet(x, "Fact"), "Fact")
          /\ HasTextSlot(DGet(DGet(x, "Fact"), "Fact"))
    /\ DHas(game_state, "KeyNPCs") /\ HasTextSlot(DGet(game_state, "KeyNPCs"))

-----------------------------------------------------------------------------
(* Death and restart (specification SpecDeath): runs of two turns with     *)
(* harmless and fatal narrations; the program is started again after it    *)
(* ended and may load the latest save file.                                *)

MaxDeathTurns == 2
DeathNarrations == {NarrPlain, NarrSlain, NarrBurn}
DeathRolls == {10}

DeathStartTurn == StartTurnWith(MaxDeathTurns, DeathRolls)
DeathNarrate == NarrateOf(DeathNarrations)

DeathNext ==
    \/ StartNew \/ StartLoad \/ Quit \/ SaveCmd \/ MetaCmd \/ DeathStartTurn
    \/ DeathNarrate \/ ApplyDirectives \/ FinishTurn \/ NextPrompt \/ Restart

SpecDeath == Init /\ [][DeathNext]_vars

\* the number held by a field, as an int or as the str written to a document
SignedInt(x) == IF IsInt(x) THEN x.v ELSE CHOOSE n \in (0 - MaxInt)..MaxInt : IntToStr(n) = x.v

\* a session whose hit points are used up
SessionDead(gs) ==
    /\ IsDict(gs) /\ DHas(gs, "playerHitPoints")
    /\ SignedInt(DGet(gs, "playerHitPoints")) <= 0
\* the root attributes of a session document
AttribOf(doc, k) == {doc.attrib[i][2] : i \in {j \in DOMAIN doc.attrib : doc.attrib[j][1] = k}}
DeadDoc(doc) ==
    /\ doc # Corrupt
    /\ \E hp \in AttribOf(doc, "playerHitPoints") : SignedInt(S(hp)) <= 0

\* C37: a session persisted on an unresuscitated death stays dead: no turn
\* is applied to it when it is in memory, and no step changes the document
\* it was saved to, also after the program is started again and the latest
\* save file is loaded.
DeadStaysDead ==
    /\ [][(pc = "AwaitingInput" /\ SessionDead(game_state))
            => /\ pc' # "RollGenerated"
               /\ game_state' = game_state]_vars
    /\ [][\A f \in DOMAIN disk :
             (MatchesGlob(f) /\ DeadDoc(disk[f]))
             => (f \in DOMAIN disk' /\ disk'[f] = disk[f])]_vars

DeadSessionLoaded ==
    /\ pc = "Crashed"
    /\ last.op = "TypeError"
    /\ loaded # PyNone
    /\ game_state = loaded
    /\ SessionDead(game_state)
    /\ DGet(game_state, "playerHitPoints") = S("-10")
    /\ DeadDoc(disk[save_path])

====
